---- MODULE Spec2Model ----
(***************************************************************************)
(* Model of the wallet balance tracker: block resolution                  *)
(* (findBlockNumberForTimestamp, WalletTracker.getBlockNumberForDate),    *)
(* the balances / block_mapping tables of BalanceDatabase, and the        *)
(* per-network rate limiter (RateLimiterManager.execute).                 *)
(*                                                                         *)
(* Time: seconds for block timestamps, milliseconds for Date values and   *)
(* for the rate limiter clock.  Dates are counted from an arbitrary day 0 *)
(* so that every value fits TLC's integers.                               *)
(***************************************************************************)
EXTENDS Integers, Sequences, FiniteSets, TLC

VARIABLES
    chain,          \* [network id -> sequence of block timestamps]; block b is chain[n][b+1]
    rs,             \* the running call of findBlockNumberForTimestamp: position and locals
    block_mapping,  \* rows of the block_mapping table
    gbd,            \* the running call of WalletTracker.getBlockNumberForDate
    balances,       \* rows of the balances table
    lastWrite,      \* history: key -> the values of the most recent committed write of the key
    save,           \* the last call of BalanceDatabase.saveBalances: how it ended
    now,            \* the clock, ms
    limiters,       \* RateLimiterManager.limiters: [network id -> RateLimiter]
    exec,           \* the calls of RateLimiterManager.execute, by slot
    window,         \* history: [network id -> invocations counted in a second]
    pass,           \* the running call of WalletTracker.updateBalances or of one of its parts
    rpc,            \* history: the calls made on the chain clients, in order
    parked          \* a second call of getBlockNumberForDate, suspended at an await: its gbd and rs

resolutionVars == <<chain, rs, block_mapping, gbd, parked>>
storeVars == <<balances, lastWrite, save>>
limiterVars == <<now, limiters, exec, window>>
passVars == <<pass, rpc>>
vars == <<chain, rs, block_mapping, gbd, balances, lastWrite, save, now, limiters, exec, window,
          pass, rpc, parked>>

(***************************************************************************)
(* Bounds of the model                                                     *)
(***************************************************************************)
MaxHead == 150          \* number of the latest block of the generated long chains
MaxSmallLen == 3        \* longest chain of the exhaustively enumerated slow chains
MaxTrackerHead == 3     \* the tracker's chain grows up to this block number
MaxDay == 2             \* calendar days 0..MaxDay are asked for
MaxCalls == 2           \* execute calls that run at the same time
MaxNow == 1000          \* the clock stops here, ms; no acquisition timeout is due before it
ClockStep == 250        \* the clock advances in steps of this many ms

(***************************************************************************)
(* Program constants                                                       *)
(***************************************************************************)
oneHour == 3600                 \* utils.ts:173
LINEAR_SEARCH_STEPS == 100      \* utils.ts:189
DEFAULT_BLOCK_TIME == 12000     \* constants.ts: default block time, ms

\* constants.ts: per-network average block time in ms
NETWORK_BLOCK_TIMES ==
    (1 :> 12000) @@ (137 :> 2000) @@ (42161 :> 250) @@ (8453 :> 2000) @@ (10 :> 2000)

Abs(x) == IF x < 0 THEN -x ELSE x

(***************************************************************************)
(* Chain client: getBlockNumber / getBlock                                 *)
(***************************************************************************)
getBlockNumber(c) == Len(c) - 1

\* getBlock({blockNumber}) succeeds only for a block of the chain
HasBlock(c, n) == n \in 0..(Len(c) - 1)

(***************************************************************************)
(* findBlockNumberForTimestamp, utils.ts:131-225.                          *)
(* One action per chain read (each `await client...`) with the code that  *)
(* follows it up to the next read.  rs holds the position and the locals: *)
(*   reads     number of chain calls made so far (a failing one included) *)
(*   visited   blocks whose data the search read (estimate, walk, window) *)
(*   requested block numbers asked of the chain                           *)
(***************************************************************************)
NoSearch == [currentBlockNumber |-> 0, closestBlock |-> 0, closestDiff |-> 0,
             lastBlockBeforeOrAtTarget |-> 0, lastBlockBeforeOrAtTargetTimestamp |-> 0]

RsIdle == [pc |-> "idle", networkId |-> 0, targetTimestamp |-> 0, currentBlock |-> 0,
           currentTs |-> 0, estimatedBlock |-> 0, blockNumber |-> 0, blockTimestamp |-> 0,
           direction |-> 0, s |-> NoSearch, i |-> 0, reads |-> 0, visited |-> {}, requested |-> {}]

BlockTimeMs(networkId) ==
    IF networkId \in DOMAIN NETWORK_BLOCK_TIMES
    THEN NETWORK_BLOCK_TIMES[networkId] ELSE DEFAULT_BLOCK_TIME

\* utils.ts:151-153
EstimatedBlock(currentBlock, currentTs, targetTimestamp, networkId) ==
    LET timeDiffMs == (currentTs - targetTimestamp) * 1000
        estimatedBlocksAgo == timeDiffMs \div BlockTimeMs(networkId)
    IN currentBlock - estimatedBlocksAgo

\* mutant of WalkContinues: the walk also passes a block exactly at the target
WalkContinuesAtTarget(ts, targetTimestamp, blockNumber) ==
    ts >= targetTimestamp /\ blockNumber > 0

\* utils.ts:162, the condition of the backward walk
WalkContinues(ts, targetTimestamp, blockNumber) == ts > targetTimestamp /\ blockNumber > 0

\* utils.ts:174
WithinOneHour(ts, targetTimestamp) == Abs(ts - targetTimestamp) <= oneHour

\* utils.ts:182-187
SearchStart(estimatedBlock, estTs, targetTimestamp) ==
    [currentBlockNumber |-> estimatedBlock, closestBlock |-> estimatedBlock,
     closestDiff |-> estTs - targetTimestamp,
     lastBlockBeforeOrAtTarget |-> estimatedBlock,
     lastBlockBeforeOrAtTargetTimestamp |-> estTs]

SearchDirection(estTs, targetTimestamp) == IF estTs > targetTimestamp THEN -1 ELSE 1

\* mutant of SearchIteration: the search does not stop within the tolerance
SearchIterationNoTolerance(s, n, ts, targetTimestamp) ==
    LET diff == ts - targetTimestamp
        s1 == IF ts <= targetTimestamp
              THEN [s EXCEPT !.currentBlockNumber = n,
                             !.lastBlockBeforeOrAtTarget = n,
                             !.lastBlockBeforeOrAtTargetTimestamp = ts]
              ELSE [s EXCEPT !.currentBlockNumber = n]
    IN IF Abs(diff) < Abs(s.closestDiff)
       THEN [s |-> [s1 EXCEPT !.closestBlock = n, !.closestDiff = diff], break |-> FALSE]
       ELSE [s |-> s1, break |-> TRUE]

\* mutant of SearchIteration: the last block at or before the target is not tracked
SearchIterationNoLastBefore(s, n, ts, targetTimestamp) ==
    LET diff == ts - targetTimestamp
        s1 == [s EXCEPT !.currentBlockNumber = n]
    IN IF Abs(diff) < Abs(s.closestDiff)
       THEN [s |-> [s1 EXCEPT !.closestBlock = n, !.closestDiff = diff],
             break |-> Abs(diff) <= oneHour]
       ELSE [s |-> s1, break |-> TRUE]

\* utils.ts:192-210, one iteration of the linear search after block n (timestamp
\* ts) was read: the new loop state and whether the loop breaks
SearchIteration(s, n, ts, targetTimestamp) ==
    LET diff == ts - targetTimestamp
        s1 == IF ts <= targetTimestamp
              THEN [s EXCEPT !.currentBlockNumber = n,
                             !.lastBlockBeforeOrAtTarget = n,
                             !.lastBlockBeforeOrAtTargetTimestamp = ts]
              ELSE [s EXCEPT !.currentBlockNumber = n]
    IN IF Abs(diff) < Abs(s.closestDiff)
       THEN [s |-> [s1 EXCEPT !.closestBlock = n, !.closestDiff = diff],
             break |-> Abs(diff) <= oneHour]
       ELSE [s |-> s1, break |-> TRUE]

\* mutant of TieBreak: the closest block is returned even when it is after the target
TieBreakClosest(s, finalBlockTimestamp, targetTimestamp) ==
    [blockNumber |-> s.closestBlock, blockTimestamp |-> finalBlockTimestamp]

\* utils.ts:214-219, the final tie-break given the re-read closest block
TieBreak(s, finalBlockTimestamp, targetTimestamp) ==
    IF finalBlockTimestamp > targetTimestamp
    THEN [blockNumber |-> s.lastBlockBeforeOrAtTarget,
          blockTimestamp |-> s.lastBlockBeforeOrAtTargetTimestamp]
    ELSE [blockNumber |-> s.closestBlock, blockTimestamp |-> finalBlockTimestamp]

\* a chain call of the resolution that throws: the error leaves the function
Throws(asked) ==
    rs' = [rs EXCEPT !.pc = "failed", !.reads = @ + 1, !.requested = @ \cup asked]

Returns(blockNumber, blockTimestamp, seen, asked) ==
    rs' = [rs EXCEPT !.pc = "done", !.reads = @ + 1, !.blockNumber = blockNumber,
                     !.blockTimestamp = blockTimestamp,
                     !.visited = @ \cup seen, !.requested = @ \cup asked]

\* utils.ts:135, entry
Enter(networkId, targetTimestamp) ==
    rs' = [RsIdle EXCEPT !.pc = "getBlockNumber", !.networkId = networkId,
                         !.targetTimestamp = targetTimestamp]

\* utils.ts:137
ReadBlockNumber(fail) ==
    /\ rs.pc = "getBlockNumber"
    /\ IF fail THEN Throws({})
       ELSE rs' = [rs EXCEPT !.pc = "getCurrentBlock", !.reads = @ + 1,
                             !.currentBlock = getBlockNumber(chain[rs.networkId])]

\* utils.ts:138-153
ReadCurrentBlock(fail) ==
    /\ rs.pc = "getCurrentBlock"
    /\ LET c == chain[rs.networkId]
           n == rs.currentBlock
       IN IF fail \/ ~HasBlock(c, n) THEN Throws({n})
          ELSE LET ts == c[n + 1] IN
               IF rs.targetTimestamp > ts
               THEN rs' = [rs EXCEPT !.pc = "done", !.reads = @ + 1, !.currentTs = ts,
                                     !.blockNumber = n, !.blockTimestamp = ts,
                                     !.requested = @ \cup {n}]
               ELSE rs' = [rs EXCEPT !.pc = "getEstimated", !.reads = @ + 1,
                                     !.currentTs = ts, !.requested = @ \cup {n},
                                     !.estimatedBlock =
                                         EstimatedBlock(n, ts, rs.targetTimestamp, rs.networkId)]

\* utils.ts:156-187
ReadEstimatedBlock(fail) ==
    /\ rs.pc = "getEstimated"
    /\ LET c == chain[rs.networkId]
           n == rs.estimatedBlock
           T == rs.targetTimestamp
       IN IF fail \/ ~HasBlock(c, n) THEN Throws({n})
          ELSE LET ts == c[n + 1] IN
               IF ts > T
               THEN IF WalkContinues(ts, T, n)
                    THEN rs' = [rs EXCEPT !.pc = "walk", !.reads = @ + 1, !.blockNumber = n,
                                          !.blockTimestamp = ts, !.visited = @ \cup {n},
                                          !.requested = @ \cup {n}]
                    ELSE Returns(n, ts, {n}, {n})
               ELSE IF WithinOneHour(ts, T)
               THEN Returns(n, ts, {n}, {n})
               ELSE rs' = [rs EXCEPT !.pc = "search", !.reads = @ + 1, !.i = 0,
                                     !.direction = SearchDirection(ts, T),
                                     !.s = SearchStart(n, ts, T),
                                     !.visited = @ \cup {n}, !.requested = @ \cup {n}]

\* utils.ts:162-169, one round of the backward walk
ReadWalkBlock(fail) ==
    /\ rs.pc = "walk"
    /\ LET c == chain[rs.networkId]
           n == rs.blockNumber - 1
       IN IF fail \/ ~HasBlock(c, n) THEN Throws({n})
          ELSE LET ts == c[n + 1] IN
               IF WalkContinues(ts, rs.targetTimestamp, n)
               THEN rs' = [rs EXCEPT !.reads = @ + 1, !.blockNumber = n,
                                     !.blockTimestamp = ts, !.visited = @ \cup {n},
                                     !.requested = @ \cup {n}]
               ELSE Returns(n, ts, {n}, {n})

\* utils.ts:189-211, one round of the linear search
ReadSearchBlock(fail) ==
    /\ rs.pc = "search"
    /\ LET c == chain[rs.networkId]
           T == rs.targetTimestamp
           n == rs.s.currentBlockNumber + rs.direction
       IN IF fail \/ ~HasBlock(c, n) THEN Throws({n})
          ELSE LET it == SearchIteration(rs.s, n, c[n + 1], T) IN
               rs' = [rs EXCEPT !.pc = IF it.break \/ rs.i + 1 >= LINEAR_SEARCH_STEPS
                                       THEN "final" ELSE "search",
                                !.reads = @ + 1, !.i = @ + 1, !.s = it.s,
                                !.visited = @ \cup {n}, !.requested = @ \cup {n}]

\* utils.ts:214-224
ReadFinalBlock(fail) ==
    /\ rs.pc = "final"
    /\ LET c == chain[rs.networkId]
           n == rs.s.closestBlock
       IN IF fail \/ ~HasBlock(c, n) THEN Throws({n})
          ELSE LET r == TieBreak(rs.s, c[n + 1], rs.targetTimestamp) IN
               Returns(r.blockNumber, r.blockTimestamp, {}, {n})

\* one step of the running resolution
ResolverStep(fail) ==
    \/ ReadBlockNumber(fail)
    \/ ReadCurrentBlock(fail)
    \/ ReadEstimatedBlock(fail)
    \/ ReadWalkBlock(fail)
    \/ ReadSearchBlock(fail)
    \/ ReadFinalBlock(fail)

(***************************************************************************)
(* Fixture chains                                                          *)
(***************************************************************************)
\* len blocks; block b has timestamp t0 + b*gap, plus jump for blocks after pivot
MkChain(len, t0, gap, pivot, jump) ==
    [i \in 1..len |-> t0 + (i - 1) * gap + (IF i - 1 > pivot THEN jump ELSE 0)]

LongChains ==
    { MkChain(MaxHead + 1, t0, gap, pivot, jump) :
        t0 \in {0, 5000}, gap \in {0, 12, 13, 50, 100}, pivot \in {40, 100},
        jump \in {0, 8000} }

\* chains whose timestamps go back by ten minutes after the pivot block
DippingChains == { MkChain(MaxHead + 1, 5000, 12, pivot, -600) : pivot \in {40, 100} }

\* every chain of at most MaxSmallLen blocks whose gaps are taken from SlowGaps
SlowGaps == {0, 3600, 21600, 50000}

RECURSIVE SlowChainsOfLen(_)
SlowChainsOfLen(len) ==
    IF len = 1 THEN { <<t0>> : t0 \in {0, 80000} }
    ELSE { Append(c, c[Len(c)] + g) : c \in SlowChainsOfLen(len - 1), g \in SlowGaps }

SlowChains == UNION { SlowChainsOfLen(len) : len \in 1..MaxSmallLen }

IsNonDecreasing(c) == \A i \in 1..(Len(c) - 1) : c[i] <= c[i + 1]
IsIncreasing(c) == \A i \in 1..(Len(c) - 1) : c[i] < c[i + 1]

\* distances of the target below the latest block's timestamp that are tried
TargetOffsets ==
    {0, 1, 11, 12, 13, 100, 290, 360, 599, 600, 1000, 1200, 1548, 1558, 1600, 2400,
     3000, 3599, 3600, 3601, 4300, 5000, 21600, 25000, 43200, 46800, 50000, 80000}

\* network 7 is not listed in NETWORK_BLOCK_TIMES
ResolverNetworks == {137, 42161, 7}

GbdIdle == [pc |-> "idle", date |-> 0, dateStr |-> 0, networkId |-> 0,
            existingBlock |-> [isNull |-> TRUE, value |-> 0], rowsBefore |-> {},
            outcome |-> "none", returned |-> 0, chainCalls |-> 0, wrote |-> FALSE,
            emitted |-> <<>>]

(***************************************************************************)
(* Rate limiter: RateLimiterManager (rate-limiter.ts) over the RateLimiter *)
(* of the limiter package, constructed with fireImmediately.               *)
(*                                                                         *)
(* The content of a bucket is counted in units of 1/INTERVAL token, so     *)
(* that the drip of d ms is the integer d * tokensPerInterval and one      *)
(* token is INTERVAL units.  exec[c] is the execute call in slot c:        *)
(*   pc "removed"   the bucket gave a token; removeTokens has to resume    *)
(*      "waiting"   the bucket was short; its timer is due at wake         *)
(*      "resolved"  removeTokens resolved with value; execute has to resume*)
(*      "request"   the operation was invoked and has not settled          *)
(*      "backoff"   the retry delay runs until wake                        *)
(*      "done"      execute returned or threw: result                      *)
(*   deadline  when the timeout of the pending acquisition is due          *)
(*   invoked   invocations of the operation by this execute call           *)
(*   thrown    the message of the error the operation threw, if it did     *)
(* window[n] counts the invocations for network n in the second that       *)
(* starts at window[n].start.                                              *)
(***************************************************************************)
INTERVAL == 1000                    \* rate-limiter.ts:36, interval: 'second', in ms

\* constants.ts
NETWORK_RATE_LIMITS ==
    (1 :> 10) @@ (137 :> 20) @@ (42161 :> 30) @@ (8453 :> 20) @@ (10 :> 20)

DEFAULT_RATE_LIMIT == 10            \* constants.ts
DEFAULT_RETRY_DELAY == 1000         \* constants.ts, ms
DEFAULT_RETRY_TIMEOUT == 30000      \* constants.ts, ms

Min(a, b) == IF a < b THEN a ELSE b
Max(a, b) == IF a > b THEN a ELSE b

\* rate-limiter.ts:33 and 90
getRateLimit(networkId) ==
    IF networkId \in DOMAIN NETWORK_RATE_LIMITS
    THEN NETWORK_RATE_LIMITS[networkId] ELSE DEFAULT_RATE_LIMIT

\* rate-limiter.ts:34-38: new RateLimiter(...) at time t: a full bucket of
\* tokensPerInterval tokens; abandoned: the due times of the bucket timers whose
\* removeTokens nobody waits for any more
NewRateLimiter(tokensPerInterval, t) ==
    [tokensPerInterval |-> tokensPerInterval, content |-> tokensPerInterval * INTERVAL,
     lastDrip |-> t, curIntervalStart |-> t, tokensThisInterval |-> 0, abandoned |-> <<>>]

\* TokenBucket.drip at time t
Drip(limiter, t) ==
    [limiter EXCEPT
        !.content = Min(@ + Max(t - limiter.lastDrip, 0) * limiter.tokensPerInterval,
                        limiter.tokensPerInterval * INTERVAL),
        !.lastDrip = t]

\* TokenBucket.removeTokens(1) at time t: the bucket after the drip; when it holds
\* less than a token the caller waits waitMs and asks again, else a token is
\* removed and value is what remains
BucketRemoveTokens(limiter, t) ==
    LET dripped == Drip(limiter, t) IN
    IF INTERVAL > dripped.content
    THEN [limiter |-> dripped, waits |-> TRUE, value |-> 0,
          waitMs |-> (INTERVAL - dripped.content + limiter.tokensPerInterval - 1)
                        \div limiter.tokensPerInterval]
    ELSE [limiter |-> [dripped EXCEPT !.content = @ - INTERVAL], waits |-> FALSE,
          value |-> dripped.content - INTERVAL, waitMs |-> 0]

\* RateLimiter.removeTokens(1) at time t up to its first await: the interval is
\* advanced when it is over; when the interval's tokens are used up the call
\* returns -1 at once (fireImmediately), else it asks the bucket
RemoveTokens(limiter, t) ==
    LET advanced ==
            IF t < limiter.curIntervalStart \/ t - limiter.curIntervalStart >= INTERVAL
            THEN [limiter EXCEPT !.curIntervalStart = t, !.tokensThisInterval = 0]
            ELSE limiter
    IN IF 1 > advanced.tokensPerInterval - advanced.tokensThisInterval
       THEN [limiter |-> advanced, waits |-> FALSE, fired |-> TRUE, value |-> -INTERVAL,
             waitMs |-> 0]
       ELSE [fired |-> FALSE] @@ BucketRemoveTokens(advanced, t)

\* rate-limiter.ts:68: `if (!tokenRemoved)`: of the numbers only 0 is falsy
IsFalsy(tokenRemoved) == tokenRemoved = 0

ExecIdle == [pc |-> "idle", networkId |-> 0, value |-> 0, wake |-> 0, deadline |-> 0,
             invoked |-> 0, thrown |-> "none", result |-> "none"]

\* mutant of Acquire: one bucket, that of the first network, serves every network
AcquireShared(c, networkId, e) ==
    IF networkId \notin DOMAIN limiters
    THEN /\ exec' = [exec EXCEPT ![c] = [e EXCEPT !.pc = "done", !.networkId = networkId,
                                                  !.result = "No rate limiter found"]]
         /\ UNCHANGED limiters
    ELSE LET shared == CHOOSE n \in DOMAIN limiters : \A other \in DOMAIN limiters : n <= other
             r == RemoveTokens(limiters[shared], now)
         IN /\ limiters' = [limiters EXCEPT ![shared] = r.limiter]
            /\ exec' = [exec EXCEPT ![c] =
                   [e EXCEPT !.networkId = networkId,
                             !.pc = IF r.fired THEN "resolved"
                                    ELSE IF r.waits THEN "waiting" ELSE "removed",
                             !.value = r.value,
                             !.wake = IF r.waits THEN now + r.waitMs ELSE 0,
                             !.deadline = IF r.waits THEN now + DEFAULT_RETRY_TIMEOUT ELSE 0]]

\* rate-limiter.ts:54-66: execute up to its await, for the call e in slot c
Acquire(c, networkId, e) ==
    IF networkId \notin DOMAIN limiters
    THEN /\ exec' = [exec EXCEPT ![c] = [e EXCEPT !.pc = "done", !.networkId = networkId,
                                                  !.result = "No rate limiter found"]]
         /\ UNCHANGED limiters
    ELSE LET r == RemoveTokens(limiters[networkId], now) IN
         /\ limiters' = [limiters EXCEPT ![networkId] = r.limiter]
         /\ exec' = [exec EXCEPT ![c] =
                [e EXCEPT !.networkId = networkId,
                          !.pc = IF r.fired THEN "resolved"
                                 ELSE IF r.waits THEN "waiting" ELSE "removed",
                          !.value = r.value,
                          !.wake = IF r.waits THEN now + r.waitMs ELSE 0,
                          !.deadline = IF r.waits THEN now + DEFAULT_RETRY_TIMEOUT ELSE 0]]

\* rate-limiter.ts:74-82: the catch block of execute, given the error's message
Catch(e, message) ==
    IF message = "Rate limit timeout"
    THEN [e EXCEPT !.pc = "backoff", !.wake = now + DEFAULT_RETRY_DELAY, !.deadline = 0,
                   !.value = 0]
    ELSE [e EXCEPT !.pc = "done", !.result = message, !.value = 0]

\* history: one more invocation at time t, counted in the second that started
\* with the first invocation not covered by the second before
Counted(w, t) ==
    IF w.count = 0 \/ t - w.start >= INTERVAL
    THEN [start |-> t, count |-> 1]
    ELSE [w EXCEPT !.count = @ + 1]

\* code that became ready to run by a settled promise runs before any timer
MicrotaskPending == \E c \in DOMAIN exec : exec[c].pc \in {"removed", "resolved"}

\* the timers that are set
PendingTimers ==
    { [kind |-> "bucket", c |-> c, networkId |-> exec[c].networkId, due |-> exec[c].wake] :
        c \in { x \in DOMAIN exec : exec[x].pc = "waiting" } }
    \cup
    { [kind |-> "timeout", c |-> c, networkId |-> exec[c].networkId,
       due |-> exec[c].deadline] :
        c \in { x \in DOMAIN exec : exec[x].pc = "waiting" } }
    \cup
    { [kind |-> "retry", c |-> c, networkId |-> exec[c].networkId, due |-> exec[c].wake] :
        c \in { x \in DOMAIN exec : exec[x].pc = "backoff" } }
    \cup
    UNION { { [kind |-> "abandoned", c |-> i, networkId |-> n,
               due |-> limiters[n].abandoned[i]] :
                i \in DOMAIN limiters[n].abandoned } : n \in DOMAIN limiters }

RemoveAt(seq, i) == SubSeq(seq, 1, i - 1) \o SubSeq(seq, i + 1, Len(seq))

\* a caller calls execute(networkId, request); the call takes the free slot c.
\* No call is started once a second is seen to hold more invocations than the
\* network's rate.
Execute(c, networkId) ==
    /\ exec[c].pc \in {"idle", "done"}
    /\ \A n \in DOMAIN window : window[n].count <= getRateLimit(n)
    /\ Acquire(c, networkId, ExecIdle)
    /\ UNCHANGED <<now, window, resolutionVars, storeVars, passVars>>

\* RateLimiter.removeTokens resumes with the bucket's answer: the token is counted
\* for the interval, and removeTokens resolves with what remains in the bucket
RemoveTokensResumes(c) ==
    /\ exec[c].pc = "removed"
    /\ limiters' = [limiters EXCEPT ![exec[c].networkId].tokensThisInterval = @ + 1]
    /\ exec' = [exec EXCEPT ![c].pc = "resolved"]
    /\ UNCHANGED <<now, window, resolutionVars, storeVars, passVars>>

\* rate-limiter.ts:68-73: execute resumes with tokenRemoved and invokes the request
ExecuteResumes(c) ==
    /\ exec[c].pc = "resolved"
    /\ IF IsFalsy(exec[c].value)
       THEN /\ exec' = [exec EXCEPT
                          ![c] = Catch(exec[c], "Failed to acquire rate limit token")]
            /\ UNCHANGED window
       ELSE /\ exec' = [exec EXCEPT ![c].pc = "request", ![c].invoked = @ + 1,
                                    ![c].value = 0]
            /\ window' = [window EXCEPT ![exec[c].networkId] = Counted(@, now)]
    /\ UNCHANGED <<now, limiters, resolutionVars, storeVars, passVars>>

\* rate-limiter.ts:73-82: the request settles: it resolves ("ok") or it throws an
\* error with the given message
RequestSettles(c, outcome) ==
    /\ exec[c].pc = "request"
    /\ exec' = [exec EXCEPT ![c] =
                  IF outcome = "ok" THEN [@ EXCEPT !.pc = "done", !.result = "ok"]
                  ELSE Catch([@ EXCEPT !.thrown = outcome], outcome)]
    /\ UNCHANGED <<now, limiters, window, resolutionVars, storeVars, passVars>>

\* a timer that is due fires, the earliest first:
\*   bucket     TokenBucket.removeTokens asks the bucket again
\*   timeout    rate-limiter.ts:64: the race rejects, the catch block starts the
\*              retry delay, and the bucket timer of the call stays set
\*   retry      rate-limiter.ts:78-79: execute is called again
\*   abandoned  as bucket, for a removeTokens nobody waits for: the token it gets
\*              is counted for the interval and lost
TimerFires(timer) ==
    /\ ~MicrotaskPending
    /\ timer \in PendingTimers
    /\ timer.due <= now
    /\ \A other \in PendingTimers : timer.due <= other.due
    /\ LET c == timer.c
           n == timer.networkId
           r == BucketRemoveTokens(limiters[n], now)
       IN CASE timer.kind = "bucket" ->
                 /\ limiters' = [limiters EXCEPT ![n] = r.limiter]
                 /\ exec' = [exec EXCEPT
                        ![c].pc = IF r.waits THEN "waiting" ELSE "removed",
                        ![c].value = r.value,
                        ![c].wake = IF r.waits THEN now + r.waitMs ELSE 0,
                        ![c].deadline = IF r.waits THEN @ ELSE 0]
            [] timer.kind = "timeout" ->
                 /\ limiters' = [limiters EXCEPT ![n].abandoned = Append(@, exec[c].wake)]
                 /\ exec' = [exec EXCEPT ![c] = Catch(exec[c], "Rate limit timeout")]
            [] timer.kind = "retry" ->
                 Acquire(c, n, exec[c])
            [] timer.kind = "abandoned" ->
                 /\ limiters' = [limiters EXCEPT ![n] =
                        IF r.waits
                        THEN [r.limiter EXCEPT !.abandoned[c] = now + r.waitMs]
                        ELSE [r.limiter EXCEPT !.abandoned = RemoveAt(@, c),
                                               !.tokensThisInterval = @ + 1]]
                 /\ UNCHANGED exec
    /\ UNCHANGED <<now, window, resolutionVars, storeVars, passVars>>

\* the clock advances when nothing is ready to run
Tick ==
    /\ ~MicrotaskPending
    /\ \A timer \in PendingTimers : timer.due > now
    /\ now + ClockStep <= MaxNow
    /\ now' = now + ClockStep
    /\ UNCHANGED <<limiters, exec, window, resolutionVars, storeVars, passVars>>

\* the networks the manager is constructed for, and the networks execute is called for
LimiterNetworks == {1}
ExecuteNetworks == {1, 56}
Calls == 1..MaxCalls

LimiterIdle ==
    /\ now = 0
    /\ limiters = [n \in LimiterNetworks |-> NewRateLimiter(getRateLimit(n), 0)]
    /\ exec = [c \in Calls |-> ExecIdle]
    /\ window = [n \in LimiterNetworks |-> [start |-> 0, count |-> 0]]

(***************************************************************************)
(* Specification of the resolver alone: findBlockNumberForTimestamp        *)
(* applied to a fixture chain, every chain read answering                  *)
(***************************************************************************)
\* no second call of getBlockNumberForDate is suspended
ParkedNone == [gbd |-> GbdIdle, rs |-> RsIdle]

TrackerIdle == block_mapping = {} /\ gbd = GbdIdle /\ parked = ParkedNone

SaveIdle == [outcome |-> "none", rowsRun |-> 0, rowFailed |-> FALSE, emitted |-> <<>>]

StoreIdle == balances = {} /\ lastWrite = <<>> /\ save = SaveIdle

PassIdle == pass = [pc |-> "idle"] /\ rpc = <<>>

InitResolver ==
    /\ \E c \in LongChains \cup SlowChains \cup DippingChains :
           chain = [n \in ResolverNetworks |-> c]
    /\ rs = RsIdle
    /\ TrackerIdle
    /\ StoreIdle
    /\ LimiterIdle
    /\ PassIdle

\* a caller applies the resolver to a target at distance d below the head's timestamp
Resolve(networkId, d) ==
    /\ rs.pc \in {"idle", "done", "failed"}
    /\ LET c == chain[networkId]
           T == c[Len(c)] - d
       IN T >= 0 /\ Enter(networkId, T)
    /\ UNCHANGED <<chain, block_mapping, gbd, parked, storeVars, limiterVars, passVars>>

ResolveStep ==
    /\ ResolverStep(FALSE)
    /\ UNCHANGED <<chain, block_mapping, gbd, parked, storeVars, limiterVars, passVars>>

NextResolver ==
    \/ \E networkId \in ResolverNetworks : \E d \in TargetOffsets \cup {-1} :
           Resolve(networkId, d)
    \/ ResolveStep

SpecResolver == InitResolver /\ [][NextResolver]_vars


(***************************************************************************)
(* Dates.  A Date is an instant in ms; a date string 'YYYY-MM-DD' is       *)
(* represented by the number of its UTC day.                               *)
(***************************************************************************)
\* utils.ts:64-66 and index.tsx:716: date.toISOString().split('T')[0]
toISODateString(date) == date \div 86400000

\* new Date(dateStr): midnight UTC of that day
DateOf(dateStr) == dateStr * 86400000

\* index.tsx:726-727: setUTCHours(23, 59, 59, 999)
EndOfDay(date) == toISODateString(date) * 86400000 + 86399999

\* index.tsx:728: BigInt(Math.floor(endOfDay.getTime() / 1000))
TargetTimestamp(date) == EndOfDay(date) \div 1000

(***************************************************************************)
(* block_mapping table, database.ts:67-73: block_number and timestamp are *)
(* TEXT columns holding decimal strings (sequences of digits here).       *)
(***************************************************************************)
\* bigint.toString() of a non-negative value
RECURSIVE toString(_)
toString(n) == IF n < 10 THEN <<n>> ELSE Append(toString(n \div 10), n % 10)

\* BigInt(text) of a decimal string
RECURSIVE BigInt(_)
BigInt(str) ==
    IF Len(str) = 0 THEN 0
    ELSE BigInt(SubSeq(str, 1, Len(str) - 1)) * 10 + str[Len(str)]

\* database.ts:328-337: the block number stored for (networkId, date), or null
DbGetBlockNumberForDate(table, networkId, date) ==
    LET rows == { r \in table : r.network_id = networkId /\ r.date = date } IN
    IF rows = {} THEN [isNull |-> TRUE, value |-> 0]
    ELSE [isNull |-> FALSE, value |-> BigInt((CHOOSE r \in rows : TRUE).block_number)]

\* database.ts:352-357: INSERT OR REPLACE on the primary key (network_id, date)
DbSaveBlockMapping(table, networkId, date, blockNumber, timestamp) ==
    { r \in table : ~(r.network_id = networkId /\ r.date = date) }
    \cup { [network_id |-> networkId, date |-> date,
            block_number |-> toString(blockNumber), timestamp |-> toString(timestamp)] }

\* index.tsx:720: `if (existingBlock)`: null is falsy, and so is the bigint 0n
Truthy(existingBlock) == ~existingBlock.isNull /\ existingBlock.value # 0

(***************************************************************************)
(* WalletTracker.getBlockNumberForDate, index.tsx:715-747.                 *)
(* gbd is the running call: its arguments, what it saw and how it ended.  *)
(***************************************************************************)
\* the rows of the block_mapping table for (networkId, date)
RowsFor(table, networkId, date) ==
    { r \in table : r.network_id = networkId /\ r.date = date }

GbdFrame(date, networkId, existingBlock) ==
    [pc |-> "resolving", date |-> date, dateStr |-> toISODateString(date),
     networkId |-> networkId, existingBlock |-> existingBlock,
     rowsBefore |-> RowsFor(block_mapping, networkId, toISODateString(date)),
     outcome |-> "none", returned |-> 0,
     chainCalls |-> 0, wrote |-> FALSE, emitted |-> <<>>]

\* index.tsx:715-722 and 724-734: the cache check, then the call of the resolver
GetBlockNumberForDate(date, networkId) ==
    /\ gbd.pc \in {"idle", "returned", "threw"}
    /\ LET existingBlock ==
               DbGetBlockNumberForDate(block_mapping, networkId, toISODateString(date))
           frame == GbdFrame(date, networkId, existingBlock)
       IN IF Truthy(existingBlock)
          THEN /\ gbd' = [frame EXCEPT !.pc = "returned", !.outcome = "cached",
                                       !.returned = existingBlock.value]
               /\ rs' = RsIdle
          ELSE /\ gbd' = frame
               /\ Enter(networkId, TargetTimestamp(date))
    /\ UNCHANGED <<chain, block_mapping, parked, storeVars, limiterVars, passVars>>

\* a chain read of the resolution the call is waiting for; fail: the read throws
ResolutionRead(fail) ==
    /\ gbd.pc = "resolving"
    /\ ResolverStep(fail)
    /\ UNCHANGED <<chain, block_mapping, gbd, parked, storeVars, limiterVars, passVars>>

\* database.ts:360: the event saveBlockMapping emits after its statement ran
EmittedBySaveBlockMapping == <<"blockMappingChanged">>

\* index.tsx:736-739: the resolver returned: save the mapping, return the block
SaveAndReturn ==
    /\ gbd.pc = "resolving"
    /\ rs.pc = "done"
    /\ block_mapping' = DbSaveBlockMapping(block_mapping, gbd.networkId, gbd.dateStr,
                                           rs.blockNumber, rs.blockTimestamp)
    /\ gbd' = [gbd EXCEPT !.pc = "returned", !.outcome = "resolved",
                          !.returned = rs.blockNumber, !.chainCalls = rs.reads,
                          !.wrote = TRUE, !.emitted = EmittedBySaveBlockMapping]
    /\ UNCHANGED <<chain, rs, parked, storeVars, limiterVars, passVars>>

\* mutant of Fallback: the fallback block is stored as the mapping of the date
FallbackSaving(fail) ==
    /\ gbd.pc = "resolving"
    /\ rs.pc = "failed"
    /\ gbd' = IF fail
              THEN [gbd EXCEPT !.pc = "threw", !.chainCalls = rs.reads + 1]
              ELSE [gbd EXCEPT !.pc = "returned", !.outcome = "fallback",
                               !.returned = getBlockNumber(chain[gbd.networkId]),
                               !.chainCalls = rs.reads + 1]
    /\ block_mapping' =
           IF fail THEN block_mapping
           ELSE DbSaveBlockMapping(block_mapping, gbd.networkId, gbd.dateStr,
                                   getBlockNumber(chain[gbd.networkId]), 0)
    /\ UNCHANGED <<chain, rs, parked, storeVars, limiterVars, passVars>>

\* index.tsx:740-746: the resolver threw: read the current block number instead;
\* fail: this read throws too and the error leaves getBlockNumberForDate
Fallback(fail) ==
    /\ gbd.pc = "resolving"
    /\ rs.pc = "failed"
    /\ gbd' = IF fail
              THEN [gbd EXCEPT !.pc = "threw", !.chainCalls = rs.reads + 1]
              ELSE [gbd EXCEPT !.pc = "returned", !.outcome = "fallback",
                               !.returned = getBlockNumber(chain[gbd.networkId]),
                               !.chainCalls = rs.reads + 1]
    /\ UNCHANGED <<chain, rs, block_mapping, parked, storeVars, limiterVars, passVars>>

\* the chain produces a block, gap seconds after its latest one
AdvanceHead(networkId, gap) ==
    /\ getBlockNumber(chain[networkId]) < MaxTrackerHead
    /\ chain' = [chain EXCEPT ![networkId] = Append(@, @[Len(@)] + gap)]
    /\ UNCHANGED <<rs, block_mapping, gbd, parked, storeVars, limiterVars, passVars>>

(***************************************************************************)
(* Specification of date resolution: getBlockNumberForDate against a      *)
(* growing chain whose reads may fail                                      *)
(***************************************************************************)
\* block 0 is produced late on day 0; a later block comes 12 s after its parent
\* or 6400 s after it (from 80000 to the first second of day 1)
GenesisChain == <<80000>>

TrackerNetworks == {1}
TrackerGaps == {12, 6400}
TrackerDates == { DateOf(day) : day \in 0..MaxDay } \cup { DateOf(0) + 43200000 }

InitTracker ==
    /\ chain = [n \in TrackerNetworks |-> GenesisChain]
    /\ rs = RsIdle
    /\ block_mapping = {}
    /\ gbd = GbdIdle
    /\ parked = ParkedNone
    /\ StoreIdle
    /\ LimiterIdle
    /\ PassIdle

NextTracker ==
    \/ \E date \in TrackerDates, networkId \in TrackerNetworks :
           GetBlockNumberForDate(date, networkId)
    \/ \E fail \in BOOLEAN : ResolutionRead(fail)
    \/ SaveAndReturn
    \/ \E fail \in BOOLEAN : Fallback(fail)
    \/ \E networkId \in TrackerNetworks, gap \in TrackerGaps : AdvanceHead(networkId, gap)

SpecTracker == InitTracker /\ [][NextTracker]_vars

(***************************************************************************)
(* Addresses.  A string that is an address is modelled by the account it  *)
(* names and its letter case: "lower" (all lowercase), "checksum" (the    *)
(* mixed case of its EIP-55 checksum), "mixed" (some other mixed case).   *)
(* form "garbage" is a string that is no address at all.                  *)
(***************************************************************************)
Addr(id, form) == [id |-> id, form |-> form]

\* viem isAddress (strict): the hex pattern, then all-lowercase or a valid checksum
isAddress(address) == address.form \in {"lower", "checksum"}

\* String.prototype.toLowerCase and SQL LOWER()
toLowerCase(address) ==
    IF address.form = "garbage" THEN address ELSE Addr(address.id, "lower")

\* mutant of standardizeAddress: the address is returned in the case it came in
standardizeAddressKeepingCase(address) ==
    [threw |-> ~isAddress(address), value |-> address]

\* utils.ts:29-34: the lowercase address, or the error thrown
standardizeAddress(address) ==
    IF ~isAddress(address)
    THEN [threw |-> TRUE, value |-> address]
    ELSE [threw |-> FALSE, value |-> toLowerCase(address)]

\* constants.ts
NATIVE_TOKEN_ADDRESS == Addr("0xeeee", "lower")

(***************************************************************************)
(* balances table, database.ts:56-66 and 78                                *)
(***************************************************************************)
\* Date.toISOString(): 'YYYY-MM-DDTHH:mm:ss.sssZ', the UTC day and the time of day
DateToISOString(timestamp) ==
    [day |-> timestamp \div 86400000, time |-> timestamp % 86400000]

\* database.ts:61, 155: the decimal text bound to the INTEGER column is stored
\* as the integer it denotes
IntegerColumn(text) == BigInt(text)

\* database.ts:78: the columns of the unique index idx_balances_unique_lower
UniqueKey(row) ==
    <<toLowerCase(row.wallet_address), row.network_id, toLowerCase(row.token_address),
      row.date>>

\* the columns the upsert sets
Values(row) ==
    [symbol |-> row.symbol, balance |-> row.balance, block_number |-> row.block_number,
     timestamp |-> row.timestamp]

\* mutant of Upsert: a conflicting row is left as it is (INSERT OR IGNORE)
UpsertIgnoring(table, row) ==
    IF \E old \in table : UniqueKey(old) = UniqueKey(row) THEN table ELSE table \cup {row}

\* database.ts:133-143: INSERT ... ON CONFLICT(LOWER(wallet_address), network_id,
\* LOWER(token_address), date) DO UPDATE SET symbol, balance, block_number, timestamp
Upsert(table, row) ==
    IF \E old \in table : UniqueKey(old) = UniqueKey(row)
    THEN { IF UniqueKey(old) = UniqueKey(row)
           THEN [old EXCEPT !.symbol = row.symbol, !.balance = row.balance,
                            !.block_number = row.block_number,
                            !.timestamp = row.timestamp]
           ELSE old : old \in table }
    ELSE table \cup {row}

\* database.ts:149-170: the statements of the transaction in order, the native
\* row first; a statement whose token address is invalid throws before it runs
Statements(walletBalance, network, standardizedAddress, blockNumber, dateStr, timestampStr) ==
    LET block_number == IntegerColumn(toString(blockNumber))
        Row(token_address, symbol, balance) ==
            [wallet_address |-> standardizedAddress, network_id |-> network.id,
             token_address |-> token_address, symbol |-> symbol, balance |-> balance,
             block_number |-> block_number, timestamp |-> timestampStr, date |-> dateStr]
        native == [threw |-> FALSE,
                   row |-> Row(NATIVE_TOKEN_ADDRESS, network.native_token.symbol,
                               walletBalance.native_balance)]
        tokens == [j \in 1..Len(walletBalance.tokens) |->
                      LET token == walletBalance.tokens[j]
                          a == standardizeAddress(token.address)
                      IN [threw |-> a.threw,
                          row |-> Row(a.value, token.symbol, token.balance)]]
    IN <<native>> \o tokens

\* the number of statements run before the first that throws: a statement throws
\* for an invalid token address or because the database refuses it (failAt)
RowsRun(stmts, failAt) ==
    LET failing == { k \in 1..Len(stmts) : stmts[k].threw \/ k = failAt }
    IN IF failing = {} THEN Len(stmts)
       ELSE (CHOOSE k \in failing : \A other \in failing : k <= other) - 1

\* the table after the first n statements ran
RECURSIVE RunStatements(_, _, _)
RunStatements(table, stmts, n) ==
    IF n = 0 THEN table
    ELSE Upsert(RunStatements(table, stmts, n - 1), stmts[n].row)

\* mutant of Transaction: the statements that ran before the failing one stay
TransactionWithoutRollback(table, stmts, failAt) ==
    [table |-> RunStatements(table, stmts, RowsRun(stmts, failAt)),
     threw |-> RowsRun(stmts, failAt) < Len(stmts)]

\* database.ts:146-177: db.transaction(...): every statement, or none of them and
\* the error when one throws
Transaction(table, stmts, failAt) ==
    IF RowsRun(stmts, failAt) = Len(stmts)
    THEN [table |-> RunStatements(table, stmts, Len(stmts)), threw |-> FALSE]
    ELSE [table |-> table, threw |-> TRUE]

\* history: the values last written to each key by the first n statements
RECURSIVE Written(_, _, _)
Written(history, stmts, n) ==
    IF n = 0 THEN history
    ELSE LET h == Written(history, stmts, n - 1)
             row == stmts[n].row
         IN (UniqueKey(row) :> Values(row)) @@ h

\* database.ts:125: config.networks.find(n => n.name === walletBalance.network)
FindNetwork(networks, name) ==
    LET found == { k \in 1..Len(networks) : networks[k].name = name }
    IN IF found = {} THEN <<>>
       ELSE <<networks[CHOOSE k \in found : \A other \in found : k <= other]>>

\* mutant of EmittedBySave: the change is notified before the transaction runs
EmittedBySaveFirst(threw) ==
    <<"balancesChanged">>
    \o (IF threw THEN <<"DB saveBalances error", "DB saveBalances TX error">> ELSE <<>>)

\* database.ts:173-186: the events emitted by a call whose transaction threw, or
\* committed
EmittedBySave(threw) ==
    IF threw THEN <<"DB saveBalances error", "DB saveBalances TX error">>
    ELSE <<"balancesChanged">>

\* database.ts:119-188; failAt: the statement the database refuses (0: none)
saveBalances(networks, walletBalance, blockNumber, dateStr, timestamp, failAt) ==
    LET network == FindNetwork(networks, walletBalance.network)
        address == standardizeAddress(walletBalance.address)
        stmts == Statements(walletBalance, network[1], address.value, blockNumber,
                            dateStr, DateToISOString(timestamp))
        ran == RowsRun(stmts, failAt)
        tx == Transaction(balances, stmts, failAt)
    IN IF network = <<>>
       THEN /\ save' = [outcome |-> "returned", rowsRun |-> 0, rowFailed |-> FALSE,
                        emitted |-> <<>>]
            /\ UNCHANGED <<balances, lastWrite>>
       ELSE IF address.threw
       THEN /\ save' = [outcome |-> "threw", rowsRun |-> 0, rowFailed |-> FALSE,
                        emitted |-> <<>>]
            /\ UNCHANGED <<balances, lastWrite>>
       ELSE /\ balances' = tx.table
            /\ lastWrite' = IF ran = Len(stmts) THEN Written(lastWrite, stmts, ran)
                                                ELSE lastWrite
            /\ save' = [outcome |-> IF tx.threw THEN "threw" ELSE "saved",
                        rowsRun |-> ran, rowFailed |-> ran < Len(stmts),
                        emitted |-> EmittedBySave(tx.threw)]

(***************************************************************************)
(* Specification of the store: saveBalances called with any of the        *)
(* fixture balances; a statement may be refused by the database           *)
(***************************************************************************)
StoreNetworks ==
    << [id |-> 1, name |-> "Ethereum", native_token |-> [symbol |-> "ETH"]],
       [id |-> 137, name |-> "Polygon", native_token |-> [symbol |-> "MATIC"]] >>

TokenT(form, v, n) ==
    [address |-> Addr("0xT", form), symbol |-> IF v = 1 THEN "USDC" ELSE "USDC.e",
     balance |-> toString(10 * v + n)]

\* the token lists of a balance of version v: none, one token, the same token
\* spelled with its checksum, the token twice, the token followed by a token
\* whose address fails the checksum
TokenLists(v) ==
    { <<>>, <<TokenT("lower", v, 1)>>, <<TokenT("checksum", v, 1)>>,
      <<TokenT("lower", v, 1), TokenT("checksum", v, 2)>>,
      <<TokenT("lower", v, 1),
        [address |-> Addr("0xU", "mixed"), symbol |-> "WETH", balance |-> toString(v)]>> }

\* the calls made: wallet A in two spellings with every token list, wallet B, a
\* wallet whose address fails the checksum, another date, another network, and
\* a network that is not configured.  The version v fixes the amounts, the
\* block and its timestamp.
StoreCall(w, name, v, tokens, day) ==
    [wb |-> [address |-> w, network |-> name, native_balance |-> toString(v),
             tokens |-> tokens],
     blockNumber |-> 7 + v,
     dateStr |-> day,
     timestamp |-> DateOf(day) + 3600000 * v + 1]

StoreCalls ==
    UNION { { StoreCall(w, "Ethereum", v, tokens, 0) :
                w \in {Addr("0xA", "lower"), Addr("0xA", "checksum")},
                tokens \in TokenLists(v) }
            \cup { StoreCall(Addr("0xB", "lower"), "Ethereum", v, tokens, 0) :
                     tokens \in {<<>>, <<TokenT("lower", v, 1)>>} }
            \cup { StoreCall(Addr("0xC", "mixed"), "Ethereum", v, <<>>, 0),
                   StoreCall(Addr("0xA", "lower"), "Ethereum", v, <<>>, 1),
                   StoreCall(Addr("0xA", "lower"), "Polygon", v, <<>>, 0),
                   StoreCall(Addr("0xA", "lower"), "Gnosis", v, <<>>, 0) }
            : v \in 1..2 }

InitStore ==
    /\ chain = [n \in TrackerNetworks |-> GenesisChain]
    /\ rs = RsIdle
    /\ TrackerIdle
    /\ StoreIdle
    /\ LimiterIdle
    /\ PassIdle

SaveBalances(call, failAt) ==
    /\ saveBalances(StoreNetworks, call.wb, call.blockNumber, call.dateStr, call.timestamp,
                    failAt)
    /\ UNCHANGED <<resolutionVars, limiterVars, passVars>>

NextStore ==
    \E call \in StoreCalls : \E failAt \in 0..(1 + Len(call.wb.tokens)) :
        SaveBalances(call, failAt)

SpecStore == InitStore /\ [][NextStore]_vars

(***************************************************************************)
(* Specification of the rate limiter: execute calls in MaxCalls slots, the *)
(* requests settling in any way, the clock advancing by ClockStep          *)
(***************************************************************************)
InitLimiter ==
    /\ chain = [n \in TrackerNetworks |-> GenesisChain]
    /\ rs = RsIdle
    /\ TrackerIdle
    /\ StoreIdle
    /\ LimiterIdle
    /\ PassIdle

RequestOutcomes == {"ok", "request failed", "Rate limit timeout"}

NextLimiter ==
    \/ \E c \in Calls, networkId \in ExecuteNetworks : Execute(c, networkId)
    \/ \E c \in Calls : RemoveTokensResumes(c)
    \/ \E c \in Calls : ExecuteResumes(c)
    \/ \E c \in Calls, outcome \in RequestOutcomes : RequestSettles(c, outcome)
    \/ \E timer \in PendingTimers : TimerFires(timer)
    \/ Tick

SpecLimiter == InitLimiter /\ [][NextLimiter]_vars

(***************************************************************************)
(* C1  Monotonic block resolution: on a chain with non-decreasing          *)
(* timestamps and for a target at or before the latest block's timestamp, *)
(* the returned block is at or before the target whenever some block the  *)
(* search visited (estimate, backward walk, linear-search window) is; a   *)
(* block after the target is returned only when no visited block is at or *)
(* before it.                                                              *)
(***************************************************************************)
TsOf(networkId, b) == chain[networkId][b + 1]

SomeVisitedAtOrBefore ==
    \E b \in rs.visited : TsOf(rs.networkId, b) <= rs.targetTimestamp

C1_MonotonicResolution ==
    (/\ rs.pc = "done"
     /\ IsNonDecreasing(chain[rs.networkId])
     /\ rs.targetTimestamp <= rs.currentTs)
    => /\ rs.blockTimestamp = TsOf(rs.networkId, rs.blockNumber)
       /\ SomeVisitedAtOrBefore => rs.blockTimestamp <= rs.targetTimestamp
       /\ rs.blockTimestamp > rs.targetTimestamp => ~SomeVisitedAtOrBefore

\* the linear search overshot the target and the tie-break went back to the
\* last block at or before it
C1_Witness ==
    /\ rs.pc = "done"
    /\ IsNonDecreasing(chain[rs.networkId])
    /\ rs.targetTimestamp <= rs.currentTs
    /\ rs.i > 0
    /\ TsOf(rs.networkId, rs.s.closestBlock) > rs.targetTimestamp
    /\ rs.blockNumber = rs.s.lastBlockBeforeOrAtTarget
    /\ rs.blockTimestamp <= rs.targetTimestamp

(***************************************************************************)
(* C2  On a chain with increasing timestamps and for a target between     *)
(* block 0's and the latest block's timestamp, the resolver returns the   *)
(* greatest-numbered block whose timestamp is at or before the target.    *)
(***************************************************************************)
GreatestAtOrBefore(c, T) ==
    CHOOSE b \in 0..(Len(c) - 1) :
        /\ c[b + 1] <= T
        /\ \A b2 \in (b + 1)..(Len(c) - 1) : c[b2 + 1] > T

InFixtureRange ==
    /\ rs.pc = "done"
    /\ IsIncreasing(chain[rs.networkId])
    /\ chain[rs.networkId][1] <= rs.targetTimestamp
    /\ rs.targetTimestamp <= rs.currentTs

\* the claim as stated
C2_Original ==
    InFixtureRange
    => rs.blockNumber = GreatestAtOrBefore(chain[rs.networkId], rs.targetTimestamp)

\* C2 as amended: the returned block is at or before the target, and it is
\* the greatest-numbered such block unless the resolver accepted a block
\* within the one-hour tolerance before the target or ran out of its 100
\* search steps (then it is the block 100 after the estimate).
C2_Amended ==
    InFixtureRange
    => /\ rs.blockTimestamp <= rs.targetTimestamp
       /\ rs.blockTimestamp = TsOf(rs.networkId, rs.blockNumber)
       /\ \/ rs.blockNumber = GreatestAtOrBefore(chain[rs.networkId], rs.targetTimestamp)
          \/ rs.targetTimestamp - rs.blockTimestamp <= oneHour
          \/ rs.blockNumber = rs.estimatedBlock + LINEAR_SEARCH_STEPS

\* the search crossed the target more than an hour after its last block
\* before it, and the greatest block at or before the target was returned
C2_Witness ==
    /\ InFixtureRange
    /\ rs.i > 1
    /\ rs.targetTimestamp - rs.blockTimestamp > oneHour
    /\ rs.blockNumber # rs.estimatedBlock + LINEAR_SEARCH_STEPS
    /\ rs.blockNumber = GreatestAtOrBefore(chain[rs.networkId], rs.targetTimestamp)


(***************************************************************************)
(* C3  Cache idempotence: once a mapping for (network, date) is stored, a *)
(* call of getBlockNumberForDate for that key returns the stored block    *)
(* and makes no chain call, whatever the stored block number (block 0     *)
(* included).                                                              *)
(***************************************************************************)
C3_CacheIdempotence ==
    (gbd.pc # "idle" /\ gbd.rowsBefore # {})
    => /\ gbd.pc = "returned"
       /\ gbd.outcome = "cached"
       /\ gbd.chainCalls = 0
       /\ rs.pc = "idle"
       /\ \A r \in gbd.rowsBefore : gbd.returned = BigInt(r.block_number)

(***************************************************************************)
(* C4  When the end-of-day target is after the current block's timestamp, *)
(* the call returns the current block and writes no block_mapping row for *)
(* the (network, date).                                                    *)
(***************************************************************************)
C4_FutureDateNotCached ==
    (/\ gbd.pc = "returned"
     /\ gbd.outcome = "resolved"
     /\ rs.targetTimestamp > rs.currentTs)
    => /\ gbd.returned = rs.currentBlock
       /\ ~gbd.wrote
       /\ RowsFor(block_mapping, gbd.networkId, gbd.dateStr) = gbd.rowsBefore

(***************************************************************************)
(* C5  If a chain read fails during the resolution for (network, date),   *)
(* the read is not retried by the resolver, the caller gets the current   *)
(* block number, no block_mapping row is written, and the next call for   *)
(* the same key goes to the chain again.                                   *)
(***************************************************************************)
ResolutionFailed == gbd.pc = "resolving" /\ rs.pc = "failed"

CallEndedAfterFailure == gbd.pc \in {"returned", "threw"} /\ rs.pc = "failed"

SameKeyCalledAgain ==
    /\ gbd' # gbd
    /\ gbd'.networkId = gbd.networkId
    /\ gbd'.dateStr = gbd.dateStr

\* what C5 says of every step but the caller's outcome
C5_Common ==
    /\ ResolutionFailed
       => /\ rs' = rs
          /\ block_mapping' = block_mapping
          /\ gbd' # gbd => gbd'.chainCalls = rs.reads + 1 /\ ~gbd'.wrote
    /\ (CallEndedAfterFailure /\ SameKeyCalledAgain)
       => gbd'.pc = "resolving" /\ rs'.pc = "getBlockNumber"

\* the claim as stated: the caller always gets the current block number
C5_Original ==
    [][ /\ C5_Common
        /\ (ResolutionFailed /\ gbd' # gbd)
           => /\ gbd'.pc = "returned"
              /\ gbd'.returned = getBlockNumber(chain[gbd.networkId]) ]_vars

\* C5 as amended: after the failed read the caller reads the current block
\* number once; it gets that number if the read answers, and the error of
\* that read if it fails too.  In both cases nothing is written and the next
\* call for the key goes to the chain again.
C5_Amended ==
    [][ /\ C5_Common
        /\ (ResolutionFailed /\ gbd' # gbd)
           => \/ /\ gbd'.pc = "returned"
                 /\ gbd'.outcome = "fallback"
                 /\ gbd'.returned = getBlockNumber(chain[gbd.networkId])
              \/ gbd'.pc = "threw" ]_vars

\* a read in the middle of a resolution failed and the call returned the head
C5_Witness ==
    /\ gbd.pc = "returned"
    /\ gbd.outcome = "fallback"
    /\ rs.pc = "failed"
    /\ rs.reads >= 3
    /\ gbd.chainCalls = rs.reads + 1
    /\ RowsFor(block_mapping, gbd.networkId, gbd.dateStr) = {}

(***************************************************************************)
(* C6  After any sequence of saveBalances calls, every key (wallet,       *)
(* network, token, date) that was ever written has exactly one row in the *)
(* balances table, and the row holds the symbol, balance, block number    *)
(* and timestamp of the most recent write of the key; keys that differ    *)
(* only in the letter case of an address are the same key.                *)
(***************************************************************************)
RowsOfKey(key) == { row \in balances : UniqueKey(row) = key }

C6_UpsertIdempotence ==
    \A key \in DOMAIN lastWrite :
        /\ Cardinality(RowsOfKey(key)) = 1
        /\ \A row \in RowsOfKey(key) : Values(row) = lastWrite[key]

\* wallet A's native key was written with version 1 together with the token in
\* two spellings, then again with version 2: one native row, holding version 2
C6_Witness ==
    \E native \in balances, token \in balances :
        /\ native.token_address = NATIVE_TOKEN_ADDRESS
        /\ token.token_address = Addr("0xT", "lower")
        /\ native.wallet_address = token.wallet_address
        /\ native.network_id = token.network_id
        /\ native.date = token.date
        /\ token.balance = toString(12)
        /\ native.balance = toString(2)
        /\ native.block_number = 9
        /\ RowsOfKey(UniqueKey(native)) = {native}
        /\ RowsOfKey(UniqueKey(token)) = {token}

(***************************************************************************)
(* C7  saveBalances is atomic per wallet: when the write of one of the    *)
(* call's rows (native or token) fails, the balances table is left as it  *)
(* was before the call and the call throws.                                *)
(***************************************************************************)
C7_AtomicSave ==
    [][ /\ save'.rowFailed => save'.outcome = "threw"
        /\ save'.outcome = "threw" => balances' = balances /\ lastWrite' = lastWrite
      ]_vars

\* the native row and a token row were written, the next token row failed, and
\* the call threw over a table that holds rows of earlier calls
C7_Witness ==
    /\ save.outcome = "threw"
    /\ save.rowFailed
    /\ save.rowsRun = 2
    /\ save.emitted = <<"DB saveBalances error", "DB saveBalances TX error">>
    /\ balances # {}

(***************************************************************************)
(* C8  Rate budget: for a network whose bucket is configured for N         *)
(* requests per second, no one-second window contains more than N          *)
(* invocations of the wrapped operation, however many execute calls are    *)
(* made.                                                                   *)
(***************************************************************************)
C8_RateBudget ==
    \A n \in DOMAIN window : window[n].count <= getRateLimit(n)

(***************************************************************************)
(* C9  Once the operation has been invoked, an error it throws, whatever   *)
(* its message, ends the execute call with that error: the operation is    *)
(* not invoked a second time and no further token is acquired.             *)
(***************************************************************************)
C9_OperationErrorPropagates ==
    \A c \in DOMAIN exec :
        exec[c].thrown # "none"
        => /\ exec[c].pc = "done"
           /\ exec[c].result = exec[c].thrown
           /\ exec[c].invoked = 1

(***************************************************************************)
(* C10  For a network that has a bucket, an execute call ends with the     *)
(* operation's result or with the error the operation threw: no outcome of *)
(* the token acquisition is surfaced as an error.                          *)
(***************************************************************************)
C10_AcquisitionNeverSurfaces ==
    \A c \in DOMAIN exec :
        (exec[c].pc = "done" /\ exec[c].networkId \in DOMAIN limiters)
        => \/ exec[c].result = "ok"
           \/ exec[c].thrown # "none" /\ exec[c].result = exec[c].thrown

(***************************************************************************)
(* The rate limiter under the scheduling of the event loop: code made      *)
(* ready by a settled promise runs, a timer that is due fires, a request   *)
(* that was sent settles, and the clock advances.                          *)
(***************************************************************************)
SpecLimiterFair ==
    /\ InitLimiter
    /\ [][NextLimiter]_vars
    /\ \A c \in Calls : WF_vars(RemoveTokensResumes(c))
    /\ \A c \in Calls : WF_vars(ExecuteResumes(c))
    /\ \A c \in Calls : WF_vars(\E outcome \in RequestOutcomes : RequestSettles(c, outcome))
    /\ WF_vars(\E timer \in PendingTimers : TimerFires(timer))
    /\ WF_vars(Tick)

\* the call in slot c waits for a timer that is due after the last instant of the clock
BeyondHorizon(c) ==
    /\ exec[c].pc \in {"waiting", "backoff"}
    /\ exec[c].wake + ClockStep > MaxNow

(***************************************************************************)
(* C11  Liveness of admission: under fair scheduling, every execute call   *)
(* for a network that has a bucket eventually invokes its operation, and   *)
(* no call invokes its operation more than once.  (A call still waiting    *)
(* for a timer when the clock of the model ends is not counted.)           *)
(***************************************************************************)
C11_AdmissionLiveness ==
    \A c \in Calls :
        /\ (exec[c].pc # "idle" /\ exec[c].networkId \in DOMAIN limiters)
              ~> (exec[c].invoked >= 1 \/ BeyondHorizon(c))
        /\ [](exec[c].invoked <= 1)

(***************************************************************************)
(* Freshness of a stored balance, utils.ts:43-57 and 107-120.  An optional *)
(* Date is a record: isNull for null / undefined, else its instant in ms.  *)
(* Date.now() is the instant the process started plus the clock.           *)
(***************************************************************************)
ONE_HOUR_MS == 3600000

Absent == [isNull |-> TRUE, time |-> 0]
DateAt(time) == [isNull |-> FALSE, time |-> time]

\* new Date()
DateNow == pass.startedAt + now

\* mutant of isWithinDuration: the bound itself is outside
isWithinDurationStrict(timestamp, targetTime, durationMs) ==
    Abs(targetTime - timestamp) < durationMs

\* utils.ts:43-46
isWithinDuration(timestamp, targetTime, durationMs) ==
    Abs(targetTime - timestamp) <= durationMs

\* utils.ts:53-57: setUTCHours(23, 59, 59, 999)
getEndOfDay(date) == toISODateString(date) * 86400000 + 86399999

\* mutant of isBalanceTimestampValid: a historical date is measured from its midnight
isBalanceTimestampValidFromMidnight(timestamp, date, isCurrentDay) ==
    IF timestamp.isNull THEN FALSE
    ELSE IF isCurrentDay
         THEN isWithinDuration(timestamp.time, DateNow, ONE_HOUR_MS)
         ELSE isWithinDuration(timestamp.time, date, 3 * ONE_HOUR_MS)

\* utils.ts:107-120
isBalanceTimestampValid(timestamp, date, isCurrentDay) ==
    IF timestamp.isNull THEN FALSE
    ELSE IF isCurrentDay
         THEN isWithinDuration(timestamp.time, DateNow, ONE_HOUR_MS)
         ELSE isWithinDuration(timestamp.time, getEndOfDay(date), 3 * ONE_HOUR_MS)

\* a call of isBalanceTimestampValid and what it returned
IsBalanceTimestampValid(timestamp, date, isCurrentDay) ==
    /\ pass.pc = "idle"
    /\ pass' = [pass EXCEPT !.pc = "checked", !.timestamp = timestamp, !.date = date,
                            !.isCurrentDay = isCurrentDay,
                            !.valid = isBalanceTimestampValid(timestamp, date, isCurrentDay)]
    /\ UNCHANGED <<rpc, resolutionVars, storeVars, limiterVars>>

(***************************************************************************)
(* Specification of the freshness rule: isBalanceTimestampValid applied to *)
(* timestamps around the end of a day and around the current instant      *)
(***************************************************************************)
\* distances from the instant a timestamp is measured against, ms: around one
\* hour (59 and 61 minutes) and around three hours (2 h and 3 h 1 min after the
\* first millisecond of the next day)
FreshnessDistances ==
    {0, 1, 3540000, 3599999, 3600000, 3600001, 3660000, 7200001,
     10799999, 10800000, 10800001, 10860001}

\* the process starts at noon of the last day, or half an hour into it
StartInstants == {DateOf(MaxDay) + 43200000, DateOf(MaxDay) + 1800000}

FreshnessDates == { DateOf(day) : day \in 0..MaxDay } \cup StartInstants

FreshnessTimestamps ==
    {Absent}
    \cup { DateAt(getEndOfDay(date) + d) : date \in FreshnessDates, d \in FreshnessDistances }
    \cup { DateAt(getEndOfDay(date) - d) : date \in FreshnessDates, d \in FreshnessDistances }
    \cup { DateAt(t + d) : t \in StartInstants, d \in FreshnessDistances }
    \cup { DateAt(t - d) : t \in StartInstants, d \in FreshnessDistances }

InitFreshness ==
    /\ chain = [n \in TrackerNetworks |-> GenesisChain]
    /\ rs = RsIdle
    /\ TrackerIdle
    /\ StoreIdle
    /\ LimiterIdle
    /\ \E t \in StartInstants :
           pass = [pc |-> "idle", startedAt |-> t, timestamp |-> Absent, date |-> 0,
                   isCurrentDay |-> FALSE, valid |-> FALSE]
    /\ rpc = <<>>

NextFreshness ==
    \E timestamp \in FreshnessTimestamps, date \in FreshnessDates, isCurrentDay \in BOOLEAN :
        IsBalanceTimestampValid(timestamp, date, isCurrentDay)

SpecFreshness == InitFreshness /\ [][NextFreshness]_vars

(***************************************************************************)
(* C15  Historical freshness boundary: for a historical date D a stored    *)
(* timestamp is valid iff it is at most 3 hours away from D 23:59:59.999   *)
(* UTC; for D = day 1, 02:00:00 of day 2 is valid and 03:01:00 of day 2 is *)
(* not; an absent timestamp is never valid.                                *)
(***************************************************************************)
C15_HistoricalFreshness ==
    (pass.pc = "checked" /\ ~pass.isCurrentDay)
    => LET D == pass.date \div 86400000
           endOfD == D * 86400000 + 23 * 3600000 + 59 * 60000 + 59999
           ts == pass.timestamp
       IN /\ pass.valid <=> /\ ~ts.isNull
                            /\ ts.time >= endOfD - 10800000
                            /\ ts.time <= endOfD + 10800000
          /\ (D = 1 /\ ts = DateAt(2 * 86400000 + 2 * 3600000)) => pass.valid
          /\ (D = 1 /\ ts = DateAt(2 * 86400000 + 3 * 3600000 + 60000)) => ~pass.valid
          /\ ts.isNull => ~pass.valid

C15_Witness ==
    /\ pass.pc = "checked"
    /\ ~pass.isCurrentDay
    /\ pass.date = DateOf(1)
    /\ pass.timestamp = DateAt(2 * 86400000 + 2 * 3600000)
    /\ pass.valid

(***************************************************************************)
(* C16  Today freshness boundary: for today's date and the current instant *)
(* T a stored timestamp is valid iff it is at most 1 hour away from T;     *)
(* T - 59 min is valid and T - 61 min is not.                              *)
(***************************************************************************)
C16_TodayFreshness ==
    (pass.pc = "checked" /\ pass.isCurrentDay)
    => LET T == pass.startedAt + now
           ts == pass.timestamp
       IN /\ pass.valid <=> /\ ~ts.isNull
                            /\ ts.time >= T - 3600000
                            /\ ts.time <= T + 3600000
          /\ ts = DateAt(T - 59 * 60000) => pass.valid
          /\ ts = DateAt(T - 61 * 60000) => ~pass.valid

C16_Witness ==
    /\ pass.pc = "checked"
    /\ pass.isCurrentDay
    /\ pass.timestamp = DateAt(pass.startedAt + now - 59 * 60000)
    /\ toISODateString(pass.timestamp.time) # toISODateString(pass.startedAt + now)
    /\ pass.valid

(***************************************************************************)
(* WalletTracker.checkMissingBalances, index.tsx:536-615, over             *)
(* getLastNDays (utils.ts:74-88) and getBalancesTimestampsBatch            *)
(* (database.ts:433-486).  A configuration is a record of wallets (a       *)
(* sequence of [address]), networks (a sequence of [id, name,              *)
(* native_token, tokens]) and history_days.                                *)
(***************************************************************************)
RECURSIVE Concat(_)
Concat(seqs) == IF seqs = <<>> THEN <<>> ELSE Head(seqs) \o Concat(Tail(seqs))

\* utils.ts:74-88: midnight of today and of the days - 1 days before it
getLastNDays(days) ==
    [i \in 1..days |-> DateOf(toISODateString(DateNow) - (i - 1))]

\* mutant of DatesToCheck: today is not taken out of the last days
DatesToCheckUnfiltered(config) ==
    <<DateNow>> \o getLastNDays(config.history_days)

\* index.tsx:537-542: today, then the last days that are not today
DatesToCheck(config) ==
    LET todayStr == toISODateString(DateNow)
        NotToday(d) == toISODateString(d) # todayStr
    IN <<DateNow>> \o SelectSeq(getLastNDays(config.history_days), NotToday)

\* index.tsx:568 and 580: the key of a query
QueryKey(wallet, network, tokenAddress, dateStr) ==
    <<toLowerCase(wallet.address), network.id, toLowerCase(tokenAddress), dateStr>>

\* index.tsx:557-586: the queries, by wallet, network and date, the native token
\* before the tokens of the network
Queries(config) ==
    LET dates == DatesToCheck(config)
        Query(wallet, network, isNative, tokenAddress, date) ==
            [wallet |-> wallet, network |-> network, isNative |-> isNative,
             tokenAddress |-> tokenAddress, date |-> date,
             dateStr |-> toISODateString(date),
             key |-> QueryKey(wallet, network, tokenAddress, toISODateString(date))]
        OfDate(wallet, network, date) ==
            <<Query(wallet, network, TRUE, NATIVE_TOKEN_ADDRESS, date)>>
            \o [j \in 1..Len(network.tokens) |->
                   Query(wallet, network, FALSE, network.tokens[j].address, date)]
        OfNetwork(wallet, network) ==
            Concat([d \in 1..Len(dates) |-> OfDate(wallet, network, dates[d])])
        OfWallet(wallet) ==
            Concat([n \in 1..Len(config.networks) |-> OfNetwork(wallet, config.networks[n])])
    IN Concat([w \in 1..Len(config.wallets) |-> OfWallet(config.wallets[w])])

\* new Date(text) of a text written by Date.toISOString()
ParseISOString(text) == text.day * 86400000 + text.time

\* database.ts:441-446, 476-478: the key of a query, and of a row read
BatchKey(walletAddress, networkId, tokenAddress, dateStr) ==
    <<standardizeAddress(walletAddress).value, networkId,
      standardizeAddress(tokenAddress).value, dateStr>>

\* mutant of StoreLookups: one statement is run for each query
StoreLookupsPerKey(queries) == Len(queries)

\* database.ts:436, 468: the statements run on the store: none when there is no
\* query, else one .all() with four parameters for each query
StoreLookups(queries) == IF Len(queries) = 0 THEN 0 ELSE 1

\* database.ts:433-486: the timestamp stored for each key asked for, or undefined;
\* threw: an address of a query is not valid; lookups: the statements run
getBalancesTimestampsBatch(table, queries) ==
    LET threw == \E k \in 1..Len(queries) :
                     \/ standardizeAddress(queries[k].wallet.address).threw
                     \/ standardizeAddress(queries[k].tokenAddress).threw
        KeyOfQuery(q) == BatchKey(q.wallet.address, q.network.id, q.tokenAddress, q.dateStr)
        keySet == { KeyOfQuery(queries[k]) : k \in 1..Len(queries) }
        Matches(r, q) ==
            /\ toLowerCase(r.wallet_address) = toLowerCase(KeyOfQuery(q)[1])
            /\ r.network_id = q.network.id
            /\ toLowerCase(r.token_address) = toLowerCase(KeyOfQuery(q)[3])
            /\ r.date = q.dateStr
        rows == { r \in table : \E k \in 1..Len(queries) : Matches(r, queries[k]) }
        KeyOfRow(r) == BatchKey(toLowerCase(r.wallet_address), r.network_id,
                                toLowerCase(r.token_address), r.date)
    IN [threw |-> threw,
        lookups |-> IF threw THEN 0 ELSE StoreLookups(queries),
        result |-> [key \in keySet \cup { KeyOfRow(r) : r \in rows } |->
                       LET read == { r \in rows : KeyOfRow(r) = key } IN
                       IF read = {} THEN Absent
                       ELSE DateAt(ParseISOString((CHOOSE r \in read : TRUE).timestamp))]]

\* index.tsx:599: dbResults[q.key], undefined for a key the object does not have
ResultOf(dbResults, key) ==
    IF key \in DOMAIN dbResults.result THEN dbResults.result[key] ELSE Absent

\* index.tsx:601-609: the entry pushed for a query
MissingDataOf(q) ==
    [wallet |-> q.wallet, network |-> q.network, isNative |-> q.isNative,
     tokenAddress |-> q.tokenAddress, date |-> q.date]

\* index.tsx:536-615
checkMissingBalances(config, table) ==
    LET todayStr == toISODateString(DateNow)
        queries == Queries(config)
        dbResults == getBalancesTimestampsBatch(table, queries)
        Missing(q) ==
            ~isBalanceTimestampValid(ResultOf(dbResults, q.key), q.date, q.dateStr = todayStr)
        MissingToday(q) == q.dateStr = todayStr /\ Missing(q)
        MissingHistorical(q) == q.dateStr # todayStr /\ Missing(q)
        Entries(qs) == [k \in 1..Len(qs) |-> MissingDataOf(qs[k])]
    IN IF dbResults.threw
       THEN [threw |-> TRUE, today |-> <<>>, historical |-> <<>>,
             lookups |-> dbResults.lookups, dbResults |-> <<>>]
       ELSE [threw |-> FALSE,
             today |-> Entries(SelectSeq(queries, MissingToday)),
             historical |-> Entries(SelectSeq(queries, MissingHistorical)),
             lookups |-> dbResults.lookups, dbResults |-> dbResults.result]

\* a call of checkMissingBalances and what it returned
CheckMissingBalances ==
    /\ pass.pc = "idle"
    /\ LET r == checkMissingBalances(pass.config, balances) IN
       pass' = [pass EXCEPT !.pc = IF r.threw THEN "threw" ELSE "checked",
                            !.today = r.today, !.historical = r.historical,
                            !.lookups = r.lookups, !.dbResults = r.dbResults]
    /\ UNCHANGED <<rpc, resolutionVars, storeVars, limiterVars>>

(***************************************************************************)
(* Specification of the coverage check: checkMissingBalances for fixture   *)
(* configurations over fixture contents of the balances table              *)
(***************************************************************************)
MaxHistoryDays == 2

WalletOf(id, form) == [address |-> Addr(id, form)]

\* no wallet, one, two, one wallet listed in two spellings, one listed twice,
\* and a wallet whose address fails the checksum
CoverageWallets ==
    { <<>>, <<WalletOf("0xA", "lower")>>,
      <<WalletOf("0xA", "lower"), WalletOf("0xB", "lower")>>,
      <<WalletOf("0xA", "checksum"), WalletOf("0xA", "lower")>>,
      <<WalletOf("0xA", "lower"), WalletOf("0xA", "lower")>>,
      <<WalletOf("0xA", "lower"), WalletOf("0xC", "mixed")>> }

Ethereum(tokens) ==
    [id |-> 1, name |-> "Ethereum", native_token |-> [symbol |-> "ETH"], tokens |-> tokens]

Polygon == [id |-> 137, name |-> "Polygon", native_token |-> [symbol |-> "MATIC"],
            tokens |-> <<>>]

USDC(form) == [address |-> Addr("0xT", form), symbol |-> "USDC"]

CoverageNetworks ==
    { <<Ethereum(<<USDC("checksum")>>)>>, <<Ethereum(<<USDC("lower")>>), Polygon>> }

CoverageConfigs ==
    { [wallets |-> w, networks |-> n, history_days |-> h] :
        w \in CoverageWallets, n \in CoverageNetworks, h \in 0..MaxHistoryDays }

\* a row as saveBalances writes it
BalanceRow(id, networkId, tokenAddress, day, timestamp) ==
    [wallet_address |-> Addr(id, "lower"), network_id |-> networkId,
     token_address |-> tokenAddress, symbol |-> "-", balance |-> <<1>>,
     block_number |-> 7, timestamp |-> DateToISOString(timestamp), date |-> day]

\* rows that may be stored when the process starts at t: for today half an hour
\* or two hours old, for yesterday taken an hour before or four hours after the
\* end of the day
CoverageRows(t) ==
    LET today == toISODateString(t)
        T == Addr("0xT", "lower")
    IN { BalanceRow("0xA", 1, NATIVE_TOKEN_ADDRESS, today, t - 1800000),
         BalanceRow("0xA", 1, NATIVE_TOKEN_ADDRESS, today, t - 7200000),
         BalanceRow("0xA", 1, T, today, t - 1800000),
         BalanceRow("0xA", 1, NATIVE_TOKEN_ADDRESS, today - 1,
                    getEndOfDay(DateOf(today - 1)) - 3600000),
         BalanceRow("0xA", 1, NATIVE_TOKEN_ADDRESS, today - 1,
                    getEndOfDay(DateOf(today - 1)) + 14400000),
         BalanceRow("0xB", 1, NATIVE_TOKEN_ADDRESS, today - 1,
                    getEndOfDay(DateOf(today - 1)) - 3600000),
         BalanceRow("0xA", 137, NATIVE_TOKEN_ADDRESS, today, t - 1800000) }

\* the unique index holds in a table
UniqueIndexHolds(table) ==
    \A r1, r2 \in table : UniqueKey(r1) = UniqueKey(r2) => r1 = r2

InitCoverage ==
    /\ chain = [n \in TrackerNetworks |-> GenesisChain]
    /\ rs = RsIdle
    /\ TrackerIdle
    /\ LimiterIdle
    /\ lastWrite = <<>>
    /\ save = SaveIdle
    /\ rpc = <<>>
    /\ \E t \in StartInstants, config \in CoverageConfigs :
           /\ pass = [pc |-> "idle", startedAt |-> t, config |-> config,
                      today |-> <<>>, historical |-> <<>>, lookups |-> 0,
                      dbResults |-> <<>>]
           /\ balances \in { table \in SUBSET CoverageRows(t) : UniqueIndexHolds(table) }

NextCoverage == CheckMissingBalances

SpecCoverage == InitCoverage /\ [][NextCoverage]_vars

(***************************************************************************)
(* The required coverage set of a configuration at the current instant:    *)
(* every wallet x every network x (the native token and each token of the  *)
(* network) x (today and each of the last history_days days, today being   *)
(* the first of them).                                                     *)
(***************************************************************************)
RequiredDays(config) ==
    {toISODateString(DateNow)}
    \cup { toISODateString(DateNow) - i : i \in 0..(config.history_days - 1) }

\* the entries of the configuration that stand for a key: a wallet, a network and
\* the native token (0) or a token of the network
EntriesOfKey(config, key) ==
    { e \in (1..Len(config.wallets)) \X (1..Len(config.networks)) \X (0..MaxSmallLen) :
        /\ e[3] <= Len(config.networks[e[2]].tokens)
        /\ toLowerCase(config.wallets[e[1]].address) = key[1]
        /\ config.networks[e[2]].id = key[2]
        /\ key[3] = IF e[3] = 0 THEN NATIVE_TOKEN_ADDRESS
                    ELSE toLowerCase(config.networks[e[2]].tokens[e[3]].address) }

RequiredKeys(config) ==
    { key \in { <<toLowerCase(config.wallets[w].address), config.networks[n].id, token, day>> :
                  w \in 1..Len(config.wallets), n \in 1..Len(config.networks),
                  token \in {NATIVE_TOKEN_ADDRESS, Addr("0xT", "lower")},
                  day \in RequiredDays(config) } :
        EntriesOfKey(config, key) # {} }

\* no snapshot is stored for the key, or the stored one is not fresh
NeedsFetch(key) ==
    \A r \in balances :
        UniqueKey(r) = key
        => LET ts == r.timestamp.day * 86400000 + r.timestamp.time IN
           IF key[4] = toISODateString(DateNow)
           THEN Abs(DateNow - ts) > 3600000
           ELSE Abs(key[4] * 86400000 + 86399999 - ts) > 10800000

KeyOfEntry(item) ==
    <<toLowerCase(item.wallet.address), item.network.id, toLowerCase(item.tokenAddress),
      toISODateString(item.date)>>

Occurrences(list, key) == Cardinality({ k \in 1..Len(list) : KeyOfEntry(list[k]) = key })

AllAddressesValid(config) ==
    /\ \A w \in 1..Len(config.wallets) : isAddress(config.wallets[w].address)
    /\ \A n \in 1..Len(config.networks) : \A j \in 1..Len(config.networks[n].tokens) :
           isAddress(config.networks[n].tokens[j].address)

\* only keys of the required set are emitted, today's into the today list and the
\* others into the historical list
EmittedWhereRequired ==
    /\ \A k \in 1..Len(pass.today) :
           /\ KeyOfEntry(pass.today[k]) \in RequiredKeys(pass.config)
           /\ toISODateString(pass.today[k].date) = toISODateString(DateNow)
    /\ \A k \in 1..Len(pass.historical) :
           /\ KeyOfEntry(pass.historical[k]) \in RequiredKeys(pass.config)
           /\ toISODateString(pass.historical[k].date) # toISODateString(DateNow)

MULTICALL3_ADDRESS == Addr("0xcA11", "checksum")

\* what an account holds of a token (of the native token: contract MULTICALL3_ADDRESS)
\* at a block: a different amount for every account, token and block
AccountNo(address) ==
    CASE address.id = "0xA" -> 1 [] address.id = "0xB" -> 2 [] OTHER -> 3

ContractNo(address) ==
    CASE address.id = "0xcA11" -> 0 [] address.id = "0xT" -> 1 [] OTHER -> 2

Holding(contract, account, blockNumber) ==
    100 * blockNumber + 10 * ContractNo(contract) + AccountNo(account)

\* client.multicall({contracts, blockNumber}); reverting: the reads that revert
Multicall(contracts, blockNumber, reverting) ==
    [k \in 1..Len(contracts) |->
        IF k \in reverting THEN [isUndefined |-> TRUE, value |-> 0]
        ELSE [isUndefined |-> FALSE,
              value |-> Holding(contracts[k].address, contracts[k].args, blockNumber)]]

\* mutant of BalanceText: an undefined result is left without text
BalanceTextUndefined(r) == IF r.isUndefined THEN <<>> ELSE toString(r.value)

\* utils.ts:277, 280: result?.toString() || '0'
BalanceText(r) == IF r.isUndefined THEN <<0>> ELSE toString(r.value)

\* utils.ts:246-249
StandardizedWallets(wallets) ==
    [i \in 1..Len(wallets) |->
        [wallets[i] EXCEPT !.address = standardizeAddress(wallets[i].address).value]]

\* utils.ts:251-268: the reads of the multicall
AllCalls(wallets, network) ==
    LET standardizedWallets == StandardizedWallets(wallets) IN
    [i \in 1..Len(wallets) |->
        [address |-> MULTICALL3_ADDRESS, functionName |-> "getEthBalance",
         args |-> standardizedWallets[i].address]]
    \o Concat([j \in 1..Len(network.tokens) |->
                  [i \in 1..Len(wallets) |->
                      [address |-> network.tokens[j].address, functionName |-> "balanceOf",
                       args |-> standardizedWallets[i].address]]])

\* mutant of BalanceIndex: the results are taken wallet by wallet
BalanceIndexByWallet(tokenIndex, walletIndex, walletsPerToken, tokenCount) ==
    walletIndex * tokenCount + tokenIndex

\* utils.ts:279: the place of a token balance among the token results, from 0
BalanceIndex(tokenIndex, walletIndex, walletsPerToken, tokenCount) ==
    tokenIndex * walletsPerToken + walletIndex

\* utils.ts:272-300: the balances returned for the results of the multicall
WalletBalances(wallets, network, results) ==
    LET standardizedWallets == StandardizedWallets(wallets)
        walletsPerToken == Len(wallets)
        nativeBalanceResults == SubSeq(results, 1, walletsPerToken)
        tokenBalanceResults == SubSeq(results, walletsPerToken + 1, Len(results))
    IN [w \in 1..Len(wallets) |->
           [address |-> standardizedWallets[w].address,
            network |-> network.name,
            network_id |-> network.id,
            native_balance |-> BalanceText(nativeBalanceResults[w]),
            tokens |-> [t \in 1..Len(network.tokens) |->
                           [address |-> network.tokens[t].address,
                            symbol |-> network.tokens[t].symbol,
                            balance |-> BalanceText(tokenBalanceResults[
                                BalanceIndex(t - 1, w - 1, walletsPerToken,
                                             Len(network.tokens)) + 1])]]]]

\* an entry of the history of chain calls; limited: the networks whose execute
\* is running the call
ChainCall(op, networkId, blockNumber, contracts, limited) ==
    [op |-> op, networkId |-> networkId, blockNumber |-> blockNumber,
     contracts |-> contracts, limited |-> limited]

\* a call of getWalletsBalances and what it returned; utils.ts:246-249: the
\* address of a wallet that is not valid throws before the reads are built
GetWalletsBalances(reverting) ==
    /\ pass.pc = "idle"
    /\ LET contracts == AllCalls(pass.wallets, pass.network)
           results == Multicall(contracts, pass.blockNumber, reverting)
       IN IF \E i \in 1..Len(pass.wallets) : standardizeAddress(pass.wallets[i].address).threw
          THEN /\ rpc' = rpc
               /\ pass' = [pass EXCEPT !.pc = "threw"]
          ELSE /\ rpc' = Append(rpc, ChainCall("multicall", pass.network.id,
                                               pass.blockNumber, contracts, {}))
               /\ pass' = [pass EXCEPT !.pc = "returned", !.results = results,
                               !.returned = WalletBalances(pass.wallets, pass.network,
                                                           results)]
    /\ UNCHANGED <<resolutionVars, storeVars, limiterVars>>

(***************************************************************************)
(* Specification of the multicall layout: getWalletsBalances for up to     *)
(* MaxSmallLen wallets and up to two tokens, any one read reverting        *)
(***************************************************************************)
MulticallWalletSets == {WalletOf("0xA", "lower"), WalletOf("0xB", "checksum"),
                        WalletOf("0xC", "lower")}

\* sequences of different wallets
MulticallWallets ==
    UNION { { w \in [1..n -> MulticallWalletSets] :
                \A i, k \in 1..n : i # k => w[i] # w[k] } : n \in 0..MaxSmallLen }

MulticallTokens ==
    { <<>>, <<USDC("lower")>>,
      <<USDC("lower"), [address |-> Addr("0xU", "lower"), symbol |-> "WETH"]>>,
      <<[address |-> Addr("0xU", "lower"), symbol |-> "WETH"], USDC("checksum")>> }

InitMulticall ==
    /\ chain = [n \in TrackerNetworks |-> GenesisChain]
    /\ rs = RsIdle
    /\ TrackerIdle
    /\ StoreIdle
    /\ LimiterIdle
    /\ rpc = <<>>
    /\ \E wallets \in MulticallWallets, tokens \in MulticallTokens :
           pass = [pc |-> "idle", startedAt |-> DateOf(MaxDay), wallets |-> wallets,
                   network |-> Ethereum(tokens), blockNumber |-> 1,
                   results |-> <<>>, returned |-> <<>>]

NextMulticall ==
    \E k \in 0..(MaxSmallLen * 3) : GetWalletsBalances(IF k = 0 THEN {} ELSE {k})

SpecMulticall == InitMulticall /\ [][NextMulticall]_vars

(***************************************************************************)
(* C20  getWalletsBalances issues one multicall; its reads are one native  *)
(* balance read per wallet in wallet order, then for each token in token   *)
(* order one balance read per wallet in wallet order; for the wallet at    *)
(* position i of W and the token at position j (from 0) the returned       *)
(* native balance is the result at index i and the returned token balance  *)
(* the result at index W + j * W + i.                                      *)
(***************************************************************************)
C20_MulticallLayout ==
    pass.pc = "returned"
    => LET W == Len(pass.wallets)
           tokens == pass.network.tokens
           reads == rpc[1].contracts
       IN /\ Len(rpc) = 1
          /\ rpc[1].op = "multicall"
          /\ Len(reads) = W + Len(tokens) * W
          /\ Len(pass.returned) = W
          /\ \A i \in 0..(W - 1) :
                 /\ reads[i + 1].functionName = "getEthBalance"
                 /\ reads[i + 1].args = toLowerCase(pass.wallets[i + 1].address)
                 /\ pass.returned[i + 1].native_balance = BalanceText(pass.results[i + 1])
                 /\ \A j \in 0..(Len(tokens) - 1) :
                        /\ reads[W + j * W + i + 1].functionName = "balanceOf"
                        /\ reads[W + j * W + i + 1].address = tokens[j + 1].address
                        /\ reads[W + j * W + i + 1].args
                               = toLowerCase(pass.wallets[i + 1].address)
                        /\ pass.returned[i + 1].tokens[j + 1].address = tokens[j + 1].address
                        /\ pass.returned[i + 1].tokens[j + 1].balance
                               = BalanceText(pass.results[W + j * W + i + 1])

C20_Witness ==
    /\ pass.pc = "returned"
    /\ Len(pass.wallets) = 3
    /\ Len(pass.network.tokens) = 2
    /\ pass.returned[2].tokens[2].balance = BalanceText(pass.results[8])
    /\ pass.returned[2].tokens[2].balance
           = toString(Holding(Addr("0xT", "checksum"), pass.wallets[2].address, 1))
    /\ pass.results[1].isUndefined

(***************************************************************************)
(* WalletTracker.updateBalances, index.tsx:468-493, with                   *)
(* fetchTodayBalances (625-654), fetchHistoricalBalances (662-705) and     *)
(* fetchAndSaveWalletBatches (755-773).  pass is the running call: its     *)
(* position, its locals and, as history, the batches it fetched, the       *)
(* transactions it ran and the block searches it caused.                   *)
(***************************************************************************)
WALLET_BALANCE_BATCH_SIZE == 5

\* the slot of exec the pass makes its execute calls in
PassSlot == 1

\* the places of a sequence whose value under Key occurs at no earlier place
FirstPlaces(list, Key(_)) ==
    LET First(k) == \A earlier \in 1..(k - 1) : Key(list[earlier]) # Key(list[k])
    IN SelectSeq([k \in 1..Len(list) |-> k], First)

\* utils.ts:308-318: the keys of the Map, `${wallet.address}-${network.id}`, in
\* the order they were first set
groupMissingData(missingData) ==
    LET GroupKey(item) == <<item.wallet.address, item.network.id>>
        places == FirstPlaces(missingData, GroupKey)
    IN [g \in 1..Len(places) |-> GroupKey(missingData[places[g]])]

\* index.tsx:668-675: the keys of groupedByDate in the order they were first set
GroupedDates(missingData) ==
    LET DateStr(item) == toISODateString(item.date)
        places == FirstPlaces(missingData, DateStr)
    IN [g \in 1..Len(places) |-> DateStr(missingData[places[g]])]

\* index.tsx:676, 681: the entries of a date
DateData(missingData, dateStr) ==
    LET OfDate(item) == toISODateString(item.date) = dateStr
    IN SelectSeq(missingData, OfDate)

\* index.tsx:636-637, 685-686: Array.prototype.find, the first element that matches
FindWallet(config, walletAddress) ==
    config.wallets[CHOOSE w \in 1..Len(config.wallets) :
                      /\ config.wallets[w].address = walletAddress
                      /\ \A earlier \in 1..(w - 1) :
                             config.wallets[earlier].address # walletAddress]

FindNetworkById(config, networkId) ==
    config.networks[CHOOSE n \in 1..Len(config.networks) :
                       /\ config.networks[n].id = networkId
                       /\ \A earlier \in 1..(n - 1) : config.networks[earlier].id # networkId]

PassNone(startedAt, config) ==
    [pc |-> "idle", startedAt |-> startedAt, config |-> config,
     today |-> <<>>, historical |-> <<>>, phase |-> "none", todayStr |-> 0,
     dates |-> <<>>, dateStr |-> 0, groups |-> <<>>,
     wallet |-> <<>>, network |-> <<>>, blockNumber |-> 0, blockTimestampDate |-> 0,
     wallets |-> <<>>, i |-> 0, fetched |-> <<>>, k |-> 0,
     batches |-> <<>>, transactions |-> 0, searches |-> <<>>, fallbacks |-> <<>>,
     error |-> "none"]

\* index.tsx:678-684: the next date of fetchHistoricalBalances, or its end
EnterDate(p) ==
    IF p.dates = <<>> THEN [p EXCEPT !.pc = "done"]
    ELSE [p EXCEPT !.pc = "resolve", !.dateStr = Head(p.dates), !.dates = Tail(p.dates),
                   !.groups = groupMissingData(DateData(p.historical, Head(p.dates)))]

\* index.tsx:662-676
StartHistorical(p) ==
    EnterDate([p EXCEPT !.phase = "historical", !.dates = GroupedDates(p.historical)])

\* index.tsx:625-633
StartToday(p) ==
    [p EXCEPT !.phase = "today", !.pc = "getBlockNumber",
              !.todayStr = toISODateString(DateNow), !.dateStr = toISODateString(DateNow),
              !.groups = groupMissingData(p.today)]

\* the group is done: the next group of the list, the next date, the historical
\* entries after today's (index.tsx:486-489), or the end of the pass
AfterGroup(p) ==
    IF p.groups # <<>>
    THEN [p EXCEPT !.pc = IF p.phase = "today" THEN "getBlockNumber" ELSE "resolve"]
    ELSE IF p.phase = "historical" THEN EnterDate(p)
    ELSE IF p.historical # <<>> THEN StartHistorical(p)
    ELSE [p EXCEPT !.pc = "done"]

\* index.tsx:468-490: updateBalances up to its first await
UpdateBalances ==
    /\ pass.pc = "idle"
    /\ LET r == checkMissingBalances(pass.config, balances)
           p == [pass EXCEPT !.today = r.today, !.historical = r.historical]
       IN pass' = IF pass.config.wallets = <<>> THEN [pass EXCEPT !.pc = "done"]
                  ELSE IF r.threw THEN [pass EXCEPT !.pc = "threw", !.error = "Invalid address"]
                  ELSE IF r.today # <<>> THEN StartToday(p)
                  ELSE IF r.historical # <<>> THEN StartHistorical(p)
                  ELSE [p EXCEPT !.pc = "done"]
    /\ UNCHANGED <<rpc, resolutionVars, storeVars, limiterVars>>

\* index.tsx:634-639: the next group of fetchTodayBalances and the read of the
\* current block number; fail: the read throws
GetCurrentBlockNumber(fail) ==
    /\ pass.pc = "getBlockNumber"
    /\ LET group == Head(pass.groups)
           network == FindNetworkById(pass.config, group[2])
       IN /\ rpc' = Append(rpc, ChainCall("getBlockNumber", network.id, 0, <<>>, {}))
          /\ pass' = IF fail THEN [pass EXCEPT !.pc = "threw", !.error = "getBlockNumber"]
                     ELSE [pass EXCEPT !.pc = "getBlock", !.groups = Tail(@),
                                       !.wallet = FindWallet(pass.config, group[1]),
                                       !.network = network,
                                       !.blockNumber = getBlockNumber(chain[network.id])]
    /\ UNCHANGED <<resolutionVars, storeVars, limiterVars>>

\* index.tsx:682-687: the next group of a date: getBlockNumberForDate has ended
BlockNumberForDateKnown ==
    /\ pass.pc = "resolve"
    /\ gbd.pc \in {"returned", "threw"}
    /\ LET group == Head(pass.groups)
           network == FindNetworkById(pass.config, group[2])
           searched == IF gbd.outcome = "cached" THEN <<>>
                       ELSE << <<network.id, pass.dateStr>> >>
           fellBack == IF gbd.outcome = "fallback"
                       THEN << <<group[1], network.id, pass.dateStr>> >> ELSE <<>>
       IN /\ rpc' = rpc \o [r \in 1..gbd.chainCalls |->
                               ChainCall("getBlockNumberForDate", network.id, 0, <<>>, {})]
          /\ pass' = IF gbd.pc = "threw"
                     THEN [pass EXCEPT !.pc = "threw", !.error = "getBlockNumber",
                                       !.searches = @ \o searched]
                     ELSE [pass EXCEPT !.pc = "getBlock", !.groups = Tail(@),
                                       !.wallet = FindWallet(pass.config, group[1]),
                                       !.network = network,
                                       !.blockNumber = gbd.returned,
                                       !.searches = @ \o searched,
                                       !.fallbacks = @ \o fellBack]
    /\ gbd' = GbdIdle
    /\ rs' = RsIdle
    /\ UNCHANGED <<chain, block_mapping, parked, storeVars, limiterVars>>

\* index.tsx:640-641, 688-689: the block is read for its timestamp, then
\* fetchAndSaveWalletBatches is called for the wallet of the group
GetBlock(fail) ==
    /\ pass.pc = "getBlock"
    /\ rpc' = Append(rpc, ChainCall("getBlock", pass.network.id, pass.blockNumber, <<>>, {}))
    /\ pass' = IF fail \/ ~HasBlock(chain[pass.network.id], pass.blockNumber)
               THEN [pass EXCEPT !.pc = "threw", !.error = "getBlock"]
               ELSE [pass EXCEPT !.pc = "batch", !.wallets = <<pass.wallet>>, !.i = 0,
                                 !.blockTimestampDate =
                                     chain[pass.network.id][pass.blockNumber + 1] * 1000]
    /\ UNCHANGED <<resolutionVars, storeVars, limiterVars>>

\* mutant of WalletBatch: the slice has no end
WalletBatchToEnd(wallets, i) == SubSeq(wallets, i + 1, Len(wallets))

\* index.tsx:763: wallets.slice(i, i + WALLET_BALANCE_BATCH_SIZE)
WalletBatch(wallets, i) ==
    SubSeq(wallets, i + 1, Min(i + WALLET_BALANCE_BATCH_SIZE, Len(wallets)))

\* the loop of fetchAndSaveWalletBatches goes on with the batch after i, or the
\* function returns
AfterBatch(p) ==
    IF p.i + WALLET_BALANCE_BATCH_SIZE < Len(p.wallets)
    THEN [p EXCEPT !.pc = "batch", !.i = @ + WALLET_BALANCE_BATCH_SIZE]
    ELSE AfterGroup(p)

\* index.tsx:764-768: rateLimiter.execute has ended for the batch: it returned the
\* balances that getWalletsBalances made of the multicall, or it threw
BatchFetched(reverting) ==
    /\ pass.pc = "batch"
    /\ exec[PassSlot].pc = "done"
    /\ LET walletBatch == WalletBatch(pass.wallets, pass.i)
           contracts == AllCalls(walletBatch, pass.network)
           results == Multicall(contracts, pass.blockNumber, reverting)
           p == [pass EXCEPT !.batches = Append(@, Len(walletBatch)),
                             !.fetched = WalletBalances(walletBatch, pass.network, results),
                             !.k = 1]
       IN /\ rpc' = rpc \o [r \in 1..exec[PassSlot].invoked |->
                               ChainCall("multicall", pass.network.id, pass.blockNumber,
                                         contracts, {exec[PassSlot].networkId})]
          /\ pass' = IF exec[PassSlot].result # "ok"
                     THEN [pass EXCEPT !.pc = "threw", !.error = exec[PassSlot].result,
                                       !.batches = Append(@, Len(walletBatch))]
                     ELSE [p EXCEPT !.pc = "saving"]
    /\ exec' = [exec EXCEPT ![PassSlot] = ExecIdle]
    /\ UNCHANGED <<now, limiters, window, resolutionVars, storeVars>>

\* index.tsx:769-771: saveBalances for the next balance of the batch; an error it
\* throws leaves the pass
SaveFetched(failAt) ==
    /\ pass.pc = "saving"
    /\ saveBalances(pass.config.networks, pass.fetched[pass.k], pass.blockNumber,
                    pass.dateStr, pass.blockTimestampDate, failAt)
    /\ LET p == [pass EXCEPT !.transactions = IF save'.emitted # <<>> THEN @ + 1 ELSE @] IN
       pass' = IF save'.outcome = "threw"
               THEN [p EXCEPT !.pc = "threw", !.error = "saveBalances"]
               ELSE IF pass.k < Len(pass.fetched) THEN [p EXCEPT !.k = @ + 1]
               ELSE AfterBatch(p)
    /\ UNCHANGED <<rpc, resolutionVars, limiterVars>>

\* index.tsx:764: the call of rateLimiter.execute for the batch
ExecuteBatch ==
    /\ pass.pc = "batch"
    /\ exec[PassSlot].pc = "idle"
    /\ Execute(PassSlot, pass.network.id)

\* index.tsx:686: the call of getBlockNumberForDate for the first group left
ResolveGroup ==
    /\ pass.pc = "resolve"
    /\ gbd.pc = "idle"
    /\ GetBlockNumberForDate(DateOf(pass.dateStr), Head(pass.groups)[2])

(***************************************************************************)
(* Specification of an update pass: updateBalances for one or two wallets  *)
(* on Ethereum, over an empty or partly filled balances table, against a   *)
(* chain that is one day old and grows; chain reads and writes may fail.   *)
(* The clock is looked at only while a timer of the rate limiter is set.   *)
(***************************************************************************)
\* the process starts half a minute into the last day
PassStart == DateOf(MaxDay) + 30000

\* the chains: block 0 late on the day before the start, then a block in the
\* first second of the day of the start and one 12 s later; or the same with a
\* block 12 s before midnight as well
PassChains ==
    LET midnight == DateOf(MaxDay) \div 1000 IN
    { <<midnight - 6400, midnight, midnight + 12>>,
      <<midnight - 6400, midnight - 12, midnight, midnight + 12>> }

PassConfigs ==
    { [wallets |-> w, networks |-> <<Ethereum(tokens)>>, history_days |-> h] :
        w \in { <<WalletOf("0xA", "lower")>>,
                <<WalletOf("0xA", "checksum"), WalletOf("0xB", "lower")>> },
        tokens \in { <<>>, <<USDC("lower")>> },
        h \in 1..MaxHistoryDays }

\* nothing stored; today's rows of wallet A; yesterday's native rows of both wallets
PassTables ==
    LET today == toISODateString(PassStart)
        fresh == getEndOfDay(DateOf(today - 1)) - 3600000
    IN { {},
         { BalanceRow("0xA", 1, NATIVE_TOKEN_ADDRESS, today, PassStart - 1800000),
           BalanceRow("0xA", 1, Addr("0xT", "lower"), today, PassStart - 1800000) },
         { BalanceRow("0xA", 1, NATIVE_TOKEN_ADDRESS, today - 1, fresh),
           BalanceRow("0xB", 1, NATIVE_TOKEN_ADDRESS, today - 1, fresh) } }

InitPass ==
    /\ \E c \in PassChains : chain = [n \in TrackerNetworks |-> c]
    /\ rs = RsIdle
    /\ TrackerIdle
    /\ LimiterIdle
    /\ lastWrite = <<>>
    /\ save = SaveIdle
    /\ rpc = <<>>
    /\ balances \in PassTables
    /\ \E config \in PassConfigs : pass = PassNone(PassStart, config)

NextPass ==
    \/ UpdateBalances
    \/ \E fail \in BOOLEAN : GetCurrentBlockNumber(fail)
    \/ ResolveGroup
    \/ \E fail \in BOOLEAN : ResolutionRead(fail)
    \/ SaveAndReturn
    \/ \E fail \in BOOLEAN : Fallback(fail)
    \/ BlockNumberForDateKnown
    \/ \E fail \in BOOLEAN : GetBlock(fail)
    \/ ExecuteBatch
    \/ RemoveTokensResumes(PassSlot)
    \/ ExecuteResumes(PassSlot)
    \/ \E outcome \in RequestOutcomes : RequestSettles(PassSlot, outcome)
    \/ \E timer \in PendingTimers : TimerFires(timer)
    \/ PendingTimers # {} /\ Tick
    \/ BatchFetched({})
    \/ \E failAt \in 0..1 : SaveFetched(failAt)
    \/ AdvanceHead(1, 12)

SpecPass == InitPass /\ [][NextPass]_vars

(***************************************************************************)
(* C12  Every chain call made for a network during an update pass (reads   *)
(* of the latest block number, reads of a block by number during           *)
(* resolution and fetching, multicalls) is made from inside the execute of *)
(* that network's rate limiter.                                            *)
(***************************************************************************)
C12_ChainCallsRateLimited ==
    \A k \in 1..Len(rpc) : rpc[k].networkId \in rpc[k].limited

(***************************************************************************)
(* C18  In a pass with missing entries for today, the current block of a   *)
(* network is read once, however many wallets miss today's entries on the  *)
(* network, and all those wallets are fetched at that one block.           *)
(***************************************************************************)
C18_OneCurrentBlockPerNetwork ==
    \A n \in DOMAIN chain :
        /\ Cardinality({ k \in 1..Len(rpc) :
                           rpc[k].op = "getBlockNumber" /\ rpc[k].networkId = n }) <= 1
        /\ pass.phase = "today"
           => \A j, k \in 1..Len(rpc) :
                  (rpc[j].op = "multicall" /\ rpc[k].op = "multicall"
                   /\ rpc[j].networkId = n /\ rpc[k].networkId = n)
                  => rpc[j].blockNumber = rpc[k].blockNumber

(***************************************************************************)
(* C19  In the historical part of a pass the block search on the chain is  *)
(* made at most once for a (network, date), however many wallets miss      *)
(* entries for it.                                                         *)
(***************************************************************************)
C19_OneSearchPerNetworkDate ==
    \A j, k \in 1..Len(pass.searches) : pass.searches[j] = pass.searches[k] => j = k

\* index.tsx:755-762: fetchAndSaveWalletBatches is called
FetchAndSaveWalletBatches(wallets, network, blockNumber, dateStr, blockTimestampDate) ==
    /\ pass.pc = "idle"
    /\ pass' = [pass EXCEPT !.pc = IF wallets = <<>> THEN "done" ELSE "batch",
                            !.wallets = wallets, !.i = 0, !.network = network,
                            !.blockNumber = blockNumber, !.dateStr = dateStr,
                            !.blockTimestampDate = blockTimestampDate]
    /\ UNCHANGED <<rpc, resolutionVars, storeVars, limiterVars>>

(***************************************************************************)
(* Specification of batching: fetchAndSaveWalletBatches for up to          *)
(* MaxWallets wallets of Ethereum at the latest block                      *)
(***************************************************************************)
MaxWallets == 12

WalletIds == <<"0xA", "0xB", "0xC", "0xD", "0xE", "0xF", "0xG", "0xH", "0xI", "0xJ",
               "0xK", "0xL", "0xM", "0xN", "0xO">>

BatchWallets(W) == [w \in 1..W |-> WalletOf(WalletIds[w], "lower")]

InitBatches ==
    /\ \E c \in PassChains : chain = [n \in TrackerNetworks |-> c]
    /\ rs = RsIdle
    /\ TrackerIdle
    /\ StoreIdle
    /\ LimiterIdle
    /\ rpc = <<>>
    /\ \E W \in 0..MaxWallets :
           pass = PassNone(PassStart, [wallets |-> BatchWallets(W),
                                       networks |-> <<Ethereum(<<>>)>>,
                                       history_days |-> 1])

NextBatches ==
    \/ FetchAndSaveWalletBatches(pass.config.wallets, pass.config.networks[1],
                                 getBlockNumber(chain[1]), toISODateString(DateNow),
                                 chain[1][Len(chain[1])] * 1000)
    \/ ExecuteBatch
    \/ RemoveTokensResumes(PassSlot)
    \/ ExecuteResumes(PassSlot)
    \/ \E outcome \in RequestOutcomes : RequestSettles(PassSlot, outcome)
    \/ \E timer \in PendingTimers : TimerFires(timer)
    \/ PendingTimers # {} /\ Tick
    \/ BatchFetched({})
    \/ \E failAt \in 0..1 : SaveFetched(failAt)

SpecBatches == InitBatches /\ [][NextBatches]_vars

\* the integer quotient rounded up
CeilDiv(a, b) == (a + b - 1) \div b

\* the sizes of the first n batches of W wallets
BatchSizes(W, n) == [b \in 1..n |-> IF 5 * b <= W THEN 5 ELSE W - 5 * (b - 1)]

TwoNetworks == {1, 137}

NetworkOfSlot(c) == IF c = 1 THEN 1 ELSE 137

\* the callers for Polygon stop calling once this many of their requests were
\* invoked in the counted second
PolygonBurst == 3

InitTwoNetworks ==
    /\ chain = [n \in TrackerNetworks |-> GenesisChain]
    /\ rs = RsIdle
    /\ TrackerIdle
    /\ StoreIdle
    /\ PassIdle
    /\ now = 0
    /\ limiters = [n \in TwoNetworks |-> NewRateLimiter(getRateLimit(n), 0)]
    /\ exec = [c \in Calls |-> ExecIdle]
    /\ window = [n \in TwoNetworks |-> [start |-> 0, count |-> 0]]

NextTwoNetworks ==
    \/ \E c \in Calls : /\ NetworkOfSlot(c) = 137 => window[137].count < PolygonBurst
                        /\ Execute(c, NetworkOfSlot(c))
    \/ \E c \in Calls : RemoveTokensResumes(c)
    \/ \E c \in Calls : ExecuteResumes(c)
    \/ \E c \in Calls, outcome \in RequestOutcomes : RequestSettles(c, outcome)
    \/ \E timer \in PendingTimers : TimerFires(timer)
    \/ PendingTimers # {} /\ Tick

SpecTwoNetworks == InitTwoNetworks /\ [][NextTwoNetworks]_vars

\* a step in which the call of slot c moves touches no bucket but the one of the
\* call's network
OwnBucketOnly ==
    \A c \in Calls :
        (exec'[c] # exec[c] /\ exec'[c].networkId \in DOMAIN limiters)
        => \A other \in DOMAIN limiters \ {exec'[c].networkId} :
               limiters'[other] = limiters[other]

\* no call for Polygon is waiting for a token, was let through without one, or
\* ended with an error of the acquisition
PolygonAdmittedAtOnce ==
    \A c \in Calls :
        exec[c].networkId = 137
        => /\ exec[c].pc # "waiting"
           /\ exec[c].value >= 0
           /\ exec[c].result \notin {"Failed to acquire rate limit token",
                                     "No rate limiter found"}

NextReverts ==
    \E reverting \in SUBSET (1..(MaxSmallLen * 3)) : GetWalletsBalances(reverting)

SpecReverts == InitMulticall /\ [][NextReverts]_vars

\* the text for a read of the multicall: "0" when the read reverted, else what the
\* account holds of the contract at the block
ExpectedBalance(k, contract, account) ==
    IF pass.results[k].isUndefined THEN <<0>>
    ELSE toString(Holding(contract, account, pass.blockNumber))

(***************************************************************************)
(* C21  Whatever reads of the multicall revert, getWalletsBalances         *)
(* returns one entry per wallet; the balance of a (wallet, token) whose    *)
(* read reverted is "0", and every other balance is what the account       *)
(* holds at the block, unaffected by the reads that reverted.              *)
(***************************************************************************)
C21_RevertedReadIsZero ==
    rpc # <<>>
    => LET W == Len(pass.wallets)
           tokens == pass.network.tokens
       IN /\ pass.pc = "returned"
          /\ Len(pass.returned) = W
          /\ \A i \in 1..W :
                 /\ pass.returned[i].native_balance
                        = ExpectedBalance(i, MULTICALL3_ADDRESS, pass.wallets[i].address)
                 /\ Len(pass.returned[i].tokens) = Len(tokens)
                 /\ \A j \in 1..Len(tokens) :
                        pass.returned[i].tokens[j].balance
                            = ExpectedBalance(W + (j - 1) * W + i, tokens[j].address,
                                              pass.wallets[i].address)

C21_Witness ==
    /\ pass.pc = "returned"
    /\ Len(pass.wallets) = 3
    /\ Len(pass.network.tokens) = 2
    /\ pass.results[1].isUndefined
    /\ pass.results[8].isUndefined
    /\ \A k \in (1..9) \ {1, 8} : ~pass.results[k].isUndefined
    /\ pass.returned[1].native_balance = <<0>>
    /\ pass.returned[2].tokens[2].balance = <<0>>
    /\ pass.returned[2].native_balance = toString(Holding(MULTICALL3_ADDRESS,
                                                          pass.wallets[2].address, 1))
    /\ pass.returned[2].tokens[1].balance # <<0>>

(***************************************************************************)
(* What an ended pass left undone.  A read of the block number that threw  *)
(* left its group at the head of the list; every other error left the      *)
(* groups that come after the group it happened in.                        *)
(***************************************************************************)
PassEnded == pass.pc \in {"done", "threw"}

\* the groups of the running date (or of today) that were not started
GroupsNotStarted ==
    IF pass.error = "getBlockNumber" THEN Tail(pass.groups) ELSE pass.groups

\* nothing with missing entries is left that the pass did not start on
EveryOtherGroupStarted ==
    /\ GroupsNotStarted = <<>>
    /\ pass.dates = <<>>
    /\ pass.phase = "historical" \/ pass.historical = <<>>

\* the errors of chain calls: the reads of the pass and the failures of the
\* operation that execute runs
ChainErrors == {"getBlockNumber", "getBlock"} \cup (RequestOutcomes \ {"ok"})

(***************************************************************************)
(* C22  When a chain call fails with a transient error in one (wallet,     *)
(* network, date) group, the update pass does not stop there: it ends only *)
(* after every other group with missing entries was started on.            *)
(***************************************************************************)
C22_PassContinuesAfterChainError ==
    (pass.pc = "threw" /\ pass.error \in ChainErrors) => EveryOtherGroupStarted

(***************************************************************************)
(* C23  A write that the store refuses for one wallet / date group is      *)
(* thrown to the caller and raised as an event, leaves the table as it was *)
(* before that write, and does not end the pass before every other group   *)
(* with missing entries was started on.                                    *)
(***************************************************************************)
C23_PassContinuesAfterWriteFailure ==
    save.outcome = "threw"
    => /\ save.emitted # <<>>
       /\ PassEnded => EveryOtherGroupStarted

(***************************************************************************)
(* The reconciliation after a pass: checkMissingBalances over the table    *)
(* the pass left.  pass.fallbacks holds the (wallet, network, date) groups *)
(* whose block number was the current block because the search failed.     *)
(***************************************************************************)
\* the keys of a group: the native token and the tokens of the network
KeysOfGroup(config, group) ==
    { key \in RequiredKeys(config) :
        key[1] = toLowerCase(group[1]) /\ key[2] = group[2] /\ key[4] = group[3] }

ReportedHistorical(config, table) ==
    LET historical == checkMissingBalances(config, table).historical
    IN { KeyOfEntry(historical[k]) : k \in 1..Len(historical) }

(***************************************************************************)
(* C24  When the search for the block of a historical date failed and the  *)
(* group was fetched at the current block instead, the entries of that     *)
(* (wallet, network, date) are still missing after the pass: the next      *)
(* reconciliation reports every one of them again.                         *)
(***************************************************************************)
C24_FallbackStaysMissing ==
    pass.pc = "done"
    => \A f \in 1..Len(pass.fallbacks) :
           KeysOfGroup(pass.config, pass.fallbacks[f])
               \subseteq ReportedHistorical(pass.config, balances)

\* at most one row of the block_mapping table for each (network, date)
OneRowPerKey ==
    \A r, q \in block_mapping : (r.network_id = q.network_id /\ r.date = q.date) => r = q

\* a step leaves every stored row as it is
StoredRowsKept == block_mapping \subseteq block_mapping'

\* a step that calls getBlockNumberForDate for a key that has a row starts no
\* resolution against the chain
StoredKeyNotResolved ==
    (gbd' # gbd /\ gbd'.pc = "resolving")
    => RowsFor(block_mapping, gbd'.networkId, gbd'.dateStr) = {}

(***************************************************************************)
(* C25  The block_mapping table has at most one row for a (network, date); *)
(* once a row is stored, no later step changes its block number or its     *)
(* timestamp, and no later call of getBlockNumberForDate for the key       *)
(* starts a resolution against the chain.                                  *)
(***************************************************************************)
C25_MappingImmutable ==
    []OneRowPerKey /\ [][StoredRowsKept /\ StoredKeyNotResolved]_vars

(***************************************************************************)
(* Two calls of getBlockNumberForDate in flight at once.  Each call runs   *)
(* up to its next await in one step; at an await the event loop may go on  *)
(* with the other call: Switch exchanges the running call (gbd, rs) and    *)
(* the suspended one (parked).                                             *)
(***************************************************************************)
Switch ==
    /\ gbd.pc # "idle" \/ parked.gbd.pc # "idle"
    /\ parked' = [gbd |-> gbd, rs |-> rs]
    /\ gbd' = parked.gbd
    /\ rs' = parked.rs
    /\ UNCHANGED <<chain, block_mapping, storeVars, limiterVars, passVars>>

\* a call for the key of the call in flight, made while that call is still
\* resolving, or the first call
ConcurrentCall(date, networkId) ==
    /\ gbd.pc = "idle"
    /\ parked.gbd.pc \in {"idle", "resolving"}
    /\ parked.gbd.pc = "resolving" => (date = parked.gbd.date /\ networkId = parked.gbd.networkId)
    /\ GetBlockNumberForDate(date, networkId)

(***************************************************************************)
(* Specification of concurrent resolutions: two overlapping calls of       *)
(* getBlockNumberForDate for one (network, date) against a growing chain   *)
(***************************************************************************)
NextConcurrent ==
    \/ \E date \in TrackerDates, networkId \in TrackerNetworks :
           ConcurrentCall(date, networkId)
    \/ Switch
    \/ \E fail \in BOOLEAN : ResolutionRead(fail)
    \/ SaveAndReturn
    \/ \E fail \in BOOLEAN : Fallback(fail)
    \/ \E networkId \in TrackerNetworks, gap \in TrackerGaps : AdvanceHead(networkId, gap)

SpecConcurrent == InitTracker /\ [][NextConcurrent]_vars

\* both calls missed the cache and both resolved
BothResolved == gbd.outcome = "resolved" /\ parked.gbd.outcome = "resolved"

(***************************************************************************)
(* C26  Two overlapping resolutions of the same (network, date), both      *)
(* missing the cache, end with the same block number and timestamp, also   *)
(* when the chain head advances between their chain reads; the stored      *)
(* mapping is that block, whichever of the two wrote last.                 *)
(***************************************************************************)
C26_ConcurrentResolutionsAgree ==
    BothResolved
    => /\ gbd.returned = parked.gbd.returned
       /\ rs.blockTimestamp = parked.rs.blockTimestamp
       /\ \A r \in RowsFor(block_mapping, gbd.networkId, gbd.dateStr) :
              r.block_number = toString(gbd.returned)

\* the result of the lookup has an entry for the key of every query: the instant
\* of the stored row, or undefined when no row is stored
EveryKeyAnswered ==
    \A key \in RequiredKeys(pass.config) :
        /\ key \in DOMAIN pass.dbResults
        /\ LET rows == { r \in balances : UniqueKey(r) = key } IN
           IF rows = {} THEN pass.dbResults[key] = Absent
           ELSE \E r \in rows :
                    pass.dbResults[key] = DateAt(ParseISOString(r.timestamp))

InvalidWalletSets == {WalletOf("0xA", "lower"), WalletOf("0xB", "checksum"),
                      WalletOf("0xC", "mixed")}

InvalidWallets == UNION { [1..n -> InvalidWalletSets] : n \in 1..2 }

InvalidTokens ==
    { <<>>, <<USDC("checksum")>>, <<USDC("mixed")>>,
      <<USDC("lower"), [address |-> Addr("0xU", "mixed"), symbol |-> "WETH"]>> }

InitInvalid ==
    /\ chain = [n \in TrackerNetworks |-> GenesisChain]
    /\ rs = RsIdle
    /\ TrackerIdle
    /\ LimiterIdle
    /\ lastWrite = <<>>
    /\ save = SaveIdle
    /\ rpc = <<>>
    /\ balances \in { {}, { BalanceRow("0xA", 1, NATIVE_TOKEN_ADDRESS, MaxDay,
                                      DateOf(MaxDay)) } }
    /\ \E wallets \in InvalidWallets, tokens \in InvalidTokens :
           pass = [pc |-> "idle", startedAt |-> DateOf(MaxDay) + 1800000,
                   config |-> [wallets |-> wallets, networks |-> <<Ethereum(tokens)>>,
                               history_days |-> 1],
                   wallets |-> wallets, network |-> Ethereum(tokens), blockNumber |-> 0,
                   results |-> <<>>, returned |-> <<>>, i |-> 0,
                   today |-> <<>>, historical |-> <<>>, lookups |-> 0, dbResults |-> <<>>]

\* saveBalances for the wallet at place i, with a balance for each token of the
\* network
SaveWalletBalance(i) ==
    /\ pass.pc = "idle"
    /\ saveBalances(pass.config.networks,
                    [address |-> pass.wallets[i].address, network |-> pass.network.name,
                     native_balance |-> <<1>>,
                     tokens |-> [j \in 1..Len(pass.network.tokens) |->
                                    [address |-> pass.network.tokens[j].address,
                                     symbol |-> pass.network.tokens[j].symbol,
                                     balance |-> <<2>>]]],
                    pass.blockNumber, toISODateString(DateNow), DateNow, 0)
    /\ pass' = [pass EXCEPT !.pc = IF save'.outcome = "threw" THEN "threw" ELSE "saved",
                            !.i = i]
    /\ UNCHANGED <<rpc, resolutionVars, limiterVars>>

NextInvalid ==
    \/ CheckMissingBalances
    \/ \E k \in 0..1 : GetWalletsBalances(IF k = 0 THEN {} ELSE 1..(MaxSmallLen * 3))
    \/ \E i \in 1..Len(pass.wallets) : SaveWalletBalance(i)

SpecInvalid == InitInvalid /\ [][NextInvalid]_vars

\* an address the operation of the step is called with is not valid: the address
\* of a token of the network, or of a wallet (saveBalances is given one wallet,
\* the other operations all of them)
InvalidAddressGiven ==
    LET given == IF pass'.i # 0 THEN {pass'.i} ELSE 1..Len(pass.wallets) IN
    \/ \E w \in given : ~isAddress(pass.wallets[w].address)
    \/ \E j \in 1..Len(pass.network.tokens) : ~isAddress(pass.network.tokens[j].address)

\* the step ends the operation with the error; it made no chain call, ran no
\* statement on the store and left the table as it was
FailsBeforeAnyCall ==
    /\ pass'.pc = "threw"
    /\ rpc' = rpc
    /\ pass'.lookups = pass.lookups
    /\ save'.rowsRun = 0
    /\ balances' = balances

(***************************************************************************)
(* C28  An operation called with a wallet or token address that is not     *)
(* valid fails at standardizeAddress before it makes a chain call or runs  *)
(* a statement on the store, and the table is unchanged.                   *)
(***************************************************************************)
C28_InvalidAddressFailsFast == [][InvalidAddressGiven => FailsBeforeAnyCall]_vars

(***************************************************************************)
(* C29  Every wallet address and every token address stored in the         *)
(* balances table is in lowercase, after any sequence of saves and         *)
(* whatever the letter case of the addresses the saves were called with.   *)
(***************************************************************************)
C29_StoredAddressesLowercase ==
    \A r \in balances :
        /\ r.wallet_address = toLowerCase(r.wallet_address)
        /\ r.wallet_address.form = "lower"
        /\ r.token_address = toLowerCase(r.token_address)
        /\ r.token_address.form = "lower"

\* rows of wallet A and of token T are stored, after a save that was called with
\* both addresses in their checksum spelling
C29_Witness ==
    /\ save.outcome = "saved"
    /\ save.rowsRun >= 2
    /\ \E call \in StoreCalls :
           /\ call.wb.address = Addr("0xA", "checksum")
           /\ \E j \in 1..Len(call.wb.tokens) : call.wb.tokens[j].address.form = "checksum"
           /\ \A k \in 1..(1 + Len(call.wb.tokens)) :
                  \E r \in balances :
                      /\ r.block_number = call.blockNumber
                      /\ r.wallet_address = Addr("0xA", "lower")
                      /\ r.balance = IF k = 1 THEN call.wb.native_balance
                                     ELSE call.wb.tokens[k - 1].balance
    /\ \E r \in balances : r.token_address = Addr("0xT", "lower")

\* how often an event is in a list of emitted events
TimesEmitted(emitted, event) ==
    Cardinality({ k \in 1..Len(emitted) : emitted[k] = event })

WalkedBack ==
    /\ rs.pc = "done"
    /\ rs.targetTimestamp <= rs.currentTs
    /\ rs.estimatedBlock \in rs.visited
    /\ TsOf(rs.networkId, rs.estimatedBlock) > rs.targetTimestamp

\* the blocks from the estimate down to the returned one, and no other, were read
WalkedOneByOne == rs.visited = rs.blockNumber..rs.estimatedBlock

\* every block passed is after the target; the returned one is not, or is block 0
FirstAtOrBeforeOrGenesis ==
    /\ rs.blockTimestamp = TsOf(rs.networkId, rs.blockNumber)
    /\ \A b \in (rs.blockNumber + 1)..rs.estimatedBlock :
           TsOf(rs.networkId, b) > rs.targetTimestamp
    /\ rs.blockTimestamp <= rs.targetTimestamp \/ rs.blockNumber = 0

SomeAtOrBefore(c, T) == \E b \in 0..(Len(c) - 1) : c[b + 1] <= T

IsGreatestAtOrBefore(b, c, T) ==
    /\ c[b + 1] <= T
    /\ \A b2 \in (b + 1)..(Len(c) - 1) : c[b2 + 1] > T

\* the claim as stated
C31_Original ==
    WalkedBack
    => /\ WalkedOneByOne
       /\ FirstAtOrBeforeOrGenesis
       /\ IsNonDecreasing(chain[rs.networkId])
          => IsGreatestAtOrBefore(rs.blockNumber, chain[rs.networkId], rs.targetTimestamp)

\* C31 as amended: on a chain with non-decreasing timestamps the returned
\* block is the greatest-numbered block at or before the target when the
\* chain has such a block; when the target is before block 0's timestamp,
\* block 0 is returned and its timestamp is after the target.
C31_Amended ==
    WalkedBack
    => /\ WalkedOneByOne
       /\ FirstAtOrBeforeOrGenesis
       /\ IsNonDecreasing(chain[rs.networkId])
          => IF SomeAtOrBefore(chain[rs.networkId], rs.targetTimestamp)
             THEN IsGreatestAtOrBefore(rs.blockNumber, chain[rs.networkId],
                                       rs.targetTimestamp)
             ELSE rs.blockNumber = 0 /\ rs.blockTimestamp > rs.targetTimestamp

\* the walk went back over at least two blocks and stopped above block 0, at
\* the greatest block at or before the target
C31_Witness ==
    /\ WalkedBack
    /\ IsNonDecreasing(chain[rs.networkId])
    /\ rs.estimatedBlock - rs.blockNumber >= 2
    /\ rs.blockNumber > 0
    /\ IsGreatestAtOrBefore(rs.blockNumber, chain[rs.networkId], rs.targetTimestamp)

(***************************************************************************)
(* C32  Block resolution always terminates when every chain read returns: *)
(* the backward walk reads at most estimatedBlock further blocks and the  *)
(* linear search performs at most 100 steps, stopping earlier at the      *)
(* first step that does not reduce the absolute timestamp gap or that     *)
(* lands within the 1-hour tolerance.                                      *)
(***************************************************************************)
\* the resolver alone, a started call being run to its end
SpecResolverFair == SpecResolver /\ WF_vars(ResolveStep)

ResolutionRunning == rs.pc \notin {"idle", "done", "failed"}
ResolutionEnded == rs.pc \in {"done", "failed"}

\* distance of block b's timestamp from the target
Gap(b) == Abs(TsOf(rs.networkId, b) - rs.targetTimestamp)

\* blocks the backward walk has read after the estimate
WalkReads == IF rs.estimatedBlock \in rs.visited /\ rs.i = 0 /\ rs.pc \in {"walk", "done"}
             THEN Cardinality(rs.visited) - 1 ELSE 0

WalkBounded == WalkReads <= Max(rs.estimatedBlock, 0)

SearchBounded == rs.i <= 100

\* a step of the linear search read block n, one further from the estimate
\* than the block read before it
SearchStepTaken == rs.pc = "search" /\ rs'.i = rs.i + 1

SearchStepJustified ==
    SearchStepTaken =>
        LET n == rs.s.currentBlockNumber + rs.direction
            reduced == Gap(n) < Gap(rs.s.currentBlockNumber)
        IN IF rs'.pc = "search"
           THEN reduced /\ Gap(n) > 3600 /\ rs'.i < 100
           ELSE /\ rs'.pc = "final"
                /\ ~reduced \/ Gap(n) <= 3600 \/ rs'.i = 100

C32_ResolutionTerminates ==
    /\ [](WalkBounded /\ SearchBounded)
    /\ [][SearchStepJustified]_vars
    /\ ResolutionRunning ~> ResolutionEnded

\* a linear search that ran its 100 steps has returned
C32_Witness == rs.pc = "done" /\ rs.i = 100

(***************************************************************************)
(* C33  Convergence of reconciliation: when an update pass fetched and    *)
(* saved a historical (wallet, network, date) without any error, at a     *)
(* block obtained from the resolver or its cache, a reconciliation run    *)
(* immediately afterwards reports no entry of that (wallet, network,      *)
(* date) as missing.                                                       *)
(***************************************************************************)
\* the (wallet, network, date) of a missing entry, as pass.fallbacks names it
GroupOfEntry(item) == <<item.wallet.address, item.network.id, toISODateString(item.date)>>

\* the historical entries the finished pass fetched at a resolved or cached block
FetchedAtResolvedBlock ==
    { k \in 1..Len(pass.historical) :
        \A f \in 1..Len(pass.fallbacks) : pass.fallbacks[f] # GroupOfEntry(pass.historical[k]) }

\* an update pass that starts half an hour into the last day
ConvergeStart == DateOf(MaxDay) + 1800000

\* the chains of network 1 (nominal block time 12 s), the head 1400 s into the
\* day of the start: one whose blocks are 1200 s apart, so that the estimate
\* for the end of the day before is more than 100 blocks below the block of
\* that instant; one with a block every 12 s; and one whose last block before
\* the head is four hours before midnight
ConvergeChains ==
    LET head == DateOf(MaxDay) \div 1000 + 1400 IN
    { MkChain(MaxHead + 1, head - MaxHead * 1200, 1200, MaxHead, 0),
      MkChain(MaxHead + 1, head - MaxHead * 12, 12, MaxHead, 0),
      <<head - 15800, head>> }

ConvergeConfigs == { config \in PassConfigs : Len(config.wallets) = 1 }

InitConverge ==
    /\ \E c \in ConvergeChains : chain = [n \in TrackerNetworks |-> c]
    /\ rs = RsIdle
    /\ TrackerIdle
    /\ LimiterIdle
    /\ StoreIdle
    /\ rpc = <<>>
    /\ \E config \in ConvergeConfigs : pass = PassNone(ConvergeStart, config)

\* the steps of an update pass; the chain does not grow meanwhile
NextConverge ==
    \/ UpdateBalances
    \/ \E fail \in BOOLEAN : GetCurrentBlockNumber(fail)
    \/ ResolveGroup
    \/ \E fail \in BOOLEAN : ResolutionRead(fail)
    \/ SaveAndReturn
    \/ \E fail \in BOOLEAN : Fallback(fail)
    \/ BlockNumberForDateKnown
    \/ \E fail \in BOOLEAN : GetBlock(fail)
    \/ ExecuteBatch
    \/ RemoveTokensResumes(PassSlot)
    \/ ExecuteResumes(PassSlot)
    \/ \E outcome \in RequestOutcomes : RequestSettles(PassSlot, outcome)
    \/ \E timer \in PendingTimers : TimerFires(timer)
    \/ PendingTimers # {} /\ Tick
    \/ BatchFetched({})
    \/ \E failAt \in 0..1 : SaveFetched(failAt)

SpecConverge == InitConverge /\ [][NextConverge]_vars

C33_ReconciliationConverges ==
    pass.pc = "done"
    => \A k \in FetchedAtResolvedBlock :
           KeyOfEntry(pass.historical[k]) \notin ReportedHistorical(pass.config, balances)

(***************************************************************************)
(* The rate limiter after a long contention.  A call of execute for        *)
(* network 1 entered the wait of the bucket 900 ms ago ... 29.1 s ago and  *)
(* has lost every round since: in every second the ten tokens of the       *)
(* bucket went to calls that asked in the millisecond the token was due,   *)
(* before the timer of the waiting call ran.  The state repeats from       *)
(* second to second, the clock and the age of the wait apart; the first of *)
(* these states follows the construction when three calls arrive 1.9 s     *)
(* after it.  The specification starts in the last second before the       *)
(* timeout of the waiting call (rate-limiter.ts:64) is due.                *)
(***************************************************************************)
\* the call in slot 1 began to wait at this instant
StarvedSince == 2 * INTERVAL - 100

\* the instant of the initial state: the last token of the second before went
\* at StarvedFrom - 100
StarvedFrom == DEFAULT_RETRY_TIMEOUT + INTERVAL

StarvedUntil == StarvedFrom + 3 * INTERVAL

InitStarved ==
    /\ chain = [n \in TrackerNetworks |-> GenesisChain]
    /\ rs = RsIdle
    /\ TrackerIdle
    /\ StoreIdle
    /\ PassIdle
    /\ now = StarvedFrom
    /\ limiters = [n \in LimiterNetworks |->
                     [NewRateLimiter(getRateLimit(n), 0) EXCEPT
                         !.content = 0, !.lastDrip = StarvedFrom - 100,
                         !.curIntervalStart = StarvedFrom - INTERVAL,
                         !.tokensThisInterval = getRateLimit(n)]]
    /\ exec = [c \in Calls |->
                 IF c = 1
                 THEN [ExecIdle EXCEPT !.pc = "waiting", !.networkId = 1,
                                       !.wake = StarvedFrom,
                                       !.deadline = StarvedSince + DEFAULT_RETRY_TIMEOUT]
                 ELSE ExecIdle]
    /\ window = [n \in LimiterNetworks |-> [start |-> StarvedFrom - INTERVAL, count |-> 0]]

\* the clock advances to the next timer when nothing is ready to run
TickToTimer ==
    /\ ~MicrotaskPending
    /\ PendingTimers # {}
    /\ \A timer \in PendingTimers : timer.due > now
    /\ \E timer \in PendingTimers :
          /\ \A other \in PendingTimers : timer.due <= other.due
          /\ timer.due <= StarvedUntil
          /\ now' = timer.due
    /\ UNCHANGED <<limiters, exec, window, resolutionVars, storeVars, passVars>>

NextStarved ==
    \/ \E c \in Calls : Execute(c, 1)
    \/ \E c \in Calls : RemoveTokensResumes(c)
    \/ \E c \in Calls : ExecuteResumes(c)
    \/ \E c \in Calls : RequestSettles(c, "ok")
    \/ \E timer \in PendingTimers : TimerFires(timer)
    \/ TickToTimer

SpecStarved == InitStarved /\ [][NextStarved]_vars

\* a step takes a token out of the bucket of network n
TokenTaken(n) ==
    /\ limiters'[n].lastDrip = now
    /\ limiters'[n].content = Drip(limiters[n], now).content - INTERVAL

\* the removeTokens of an execute call that awaits it got the token in this step
TakenForCall(n) ==
    \E c \in DOMAIN exec :
        exec[c].pc # "removed" /\ exec'[c].pc = "removed" /\ exec'[c].networkId = n

(***************************************************************************)
(* C34  An acquisition attempt that execute abandoned on timeout never     *)
(* removes a token afterwards: every token that leaves a network's bucket  *)
(* goes to an execute call that is awaiting it, so that the tokens removed *)
(* and the operations admitted stay equal in number.                       *)
(***************************************************************************)
C34_AbandonedAttemptTakesNoToken ==
    [][\A n \in DOMAIN limiters : TokenTaken(n) => TakenForCall(n)]_vars

(***************************************************************************)
(* C35  During block resolution the resolver never requests from the      *)
(* chain a block number below 0 or above the current (latest) block       *)
(* number, for any current block, target timestamp at or before the       *)
(* current block's timestamp, and block time.                              *)
(***************************************************************************)
\* the current block was read and the target is not after its timestamp
TargetNotAfterHead ==
    /\ rs.pc \notin {"idle", "getBlockNumber", "getCurrentBlock"}
    /\ rs.currentBlock \in rs.requested
    /\ rs.targetTimestamp <= rs.currentTs

C35_RequestsWithinChain ==
    TargetNotAfterHead => \A n \in rs.requested : 0 <= n /\ n <= rs.currentBlock

(***************************************************************************)
(* Specification of fetches and their saves for a configuration of two    *)
(* networks: getWalletsBalances for the wallets on one of the networks,    *)
(* then saveBalances for one of the balances returned, then the next       *)
(* fetch at a later block.  The two networks have different names, or the  *)
(* same name.                                                              *)
(***************************************************************************)
\* a second network that is configured under the name of the first
Sepolia(name) ==
    [id |-> 11155111, name |-> name, native_token |-> [symbol |-> "SEP"], tokens |-> <<>>]

TwoNetworkLists ==
    { <<Ethereum(tokens), second>> :
        tokens \in {<<>>, <<USDC("lower")>>},
        second \in {Sepolia("Sepolia"), Sepolia("Ethereum")} }

InitSameName ==
    /\ chain = [n \in TrackerNetworks |-> GenesisChain]
    /\ rs = RsIdle
    /\ TrackerIdle
    /\ StoreIdle
    /\ LimiterIdle
    /\ rpc = <<>>
    /\ \E wallets \in MulticallWallets, networks \in TwoNetworkLists, n \in 1..2 :
           pass = [pc |-> "idle", startedAt |-> DateOf(MaxDay) + 1800000,
                   config |-> [wallets |-> wallets, networks |-> networks,
                               history_days |-> 1],
                   wallets |-> wallets, network |-> networks[n], blockNumber |-> 1,
                   results |-> <<>>, returned |-> <<>>, k |-> 0]

\* index.tsx:640-641: the Date of the timestamp of the block fetched at; the
\* blocks are 12 s apart and the latest is not after the clock
BlockTimestampDate(blockNumber) == DateNow - (MaxSmallLen - blockNumber) * 12000

\* index.tsx:769-771: saveBalances for the balance at place k of those returned
SaveReturned(k, failAt) ==
    /\ pass.pc = "returned"
    /\ k \in 1..Len(pass.returned)
    /\ saveBalances(pass.config.networks, pass.returned[k], pass.blockNumber,
                    toISODateString(DateNow), BlockTimestampDate(pass.blockNumber), failAt)
    /\ pass' = [pass EXCEPT !.pc = IF save'.outcome = "threw" THEN "threw" ELSE "saved",
                            !.k = k]
    /\ UNCHANGED <<rpc, resolutionVars, limiterVars>>

\* index.tsx:634-651: the group of another network, or a later pass: the
\* wallets are fetched on network n of the configuration at the next block
FetchAgain(n) ==
    /\ pass.pc = "saved"
    /\ pass.blockNumber < MaxSmallLen
    /\ pass' = [pass EXCEPT !.pc = "idle", !.network = pass.config.networks[n],
                            !.blockNumber = @ + 1, !.results = <<>>, !.returned = <<>>,
                            !.k = 0]
    /\ UNCHANGED <<rpc, resolutionVars, storeVars, limiterVars>>

NextSameName ==
    \/ \E r \in 0..1 : GetWalletsBalances(IF r = 0 THEN {} ELSE {1})
    \/ \E k \in 1..MaxSmallLen, failAt \in 0..1 : SaveReturned(k, failAt)
    \/ \E n \in 1..2 : FetchAgain(n)

SpecSameName == InitSameName /\ [][NextSameName]_vars

(***************************************************************************)
(* C36  saveBalances writes every row of a fetched wallet balance under    *)
(* the id of the network the balance was fetched from (its network_id),    *)
(* also when two configured networks have the same name; it never writes   *)
(* rows under another network's id.                                        *)
(***************************************************************************)
C36_RowsUnderFetchedNetwork ==
    pass.pc = "saved"
    => /\ balances # {}
       /\ \A row \in balances :
              row.block_number = IntegerColumn(toString(pass.blockNumber))
              => row.network_id = pass.returned[pass.k].network_id

(***************************************************************************)
(* C37  After any sequence of successful fetch-and-save operations with   *)
(* an unchanged configuration, for every (wallet, network, date) all      *)
(* stored rows of the network's native token and configured tokens carry  *)
(* the same block number and the same timestamp.                           *)
(***************************************************************************)
SameSnapshot(r, q) ==
    (r.wallet_address = q.wallet_address /\ r.network_id = q.network_id /\ r.date = q.date)
    => (r.block_number = q.block_number /\ r.timestamp = q.timestamp)

C37_OneBlockPerSnapshot == \A r, q \in balances : SameSnapshot(r, q)

(***************************************************************************)
(* An update pass around midnight.  updateBalances reads the clock in      *)
(* checkMissingBalances (index.tsx:537) and again on entering              *)
(* fetchTodayBalances (628); the code between the two reads, the batch     *)
(* query of the table included, runs synchronously and takes time, so the  *)
(* second read may give a later instant than the first.  UpdateBalances    *)
(* above takes the two reads at one instant, which is what happens away    *)
(* from midnight; here the pass starts one step of the clock before the    *)
(* end of a day and the two reads are separate steps.  The pass makes few  *)
(* chain calls, so no call waits for the rate limiter and no timer is set. *)
(***************************************************************************)
MidnightStart == DateOf(MaxDay + 1) - ClockStep

\* the chain of network 1: the head is 12 s before the end of the day
MidnightChains ==
    LET midnight == DateOf(MaxDay + 1) \div 1000 IN
    { <<midnight - 6400, midnight - 12>> }

\* today only, so that every missing entry is one of today's
MidnightConfigs == { config \in PassConfigs : config.history_days = 1 }

\* nothing stored, or rows of the day that are two hours old
MidnightTables ==
    LET today == toISODateString(MidnightStart) IN
    { {},
      { BalanceRow("0xA", 1, NATIVE_TOKEN_ADDRESS, today, MidnightStart - 2 * ONE_HOUR_MS) } }

InitMidnight ==
    /\ \E c \in MidnightChains : chain = [n \in TrackerNetworks |-> c]
    /\ rs = RsIdle
    /\ TrackerIdle
    /\ LimiterIdle
    /\ lastWrite = <<>>
    /\ save = SaveIdle
    /\ rpc = <<>>
    /\ balances \in MidnightTables
    /\ \E config \in MidnightConfigs : pass = PassNone(MidnightStart, config)

\* index.tsx:468-479: updateBalances up to the return of checkMissingBalances
Reconcile ==
    /\ pass.pc = "idle"
    /\ LET r == checkMissingBalances(pass.config, balances)
           p == [pass EXCEPT !.today = r.today, !.historical = r.historical]
       IN pass' = IF pass.config.wallets = <<>> THEN [pass EXCEPT !.pc = "done"]
                  ELSE IF r.threw THEN [pass EXCEPT !.pc = "threw", !.error = "Invalid address"]
                  ELSE [p EXCEPT !.pc = "reconciled"]
    /\ UNCHANGED <<rpc, resolutionVars, storeVars, limiterVars>>

\* the clock advances while the synchronous code of index.tsx:537-628 runs
ClockRuns ==
    /\ pass.pc = "reconciled"
    /\ now < ClockStep
    /\ now' = now + ClockStep
    /\ UNCHANGED <<limiters, exec, window, resolutionVars, storeVars, passVars>>

\* index.tsx:481-490, 625-629: the branches of updateBalances after the
\* reconciliation; fetchTodayBalances reads the clock for todayStr
FetchTodayBalances ==
    /\ pass.pc = "reconciled"
    /\ pass' = IF pass.today # <<>> THEN StartToday(pass)
               ELSE IF pass.historical # <<>> THEN StartHistorical(pass)
               ELSE [pass EXCEPT !.pc = "done"]
    /\ UNCHANGED <<rpc, resolutionVars, storeVars, limiterVars>>

NextMidnight ==
    \/ Reconcile
    \/ ClockRuns
    \/ FetchTodayBalances
    \/ \E fail \in BOOLEAN : GetCurrentBlockNumber(fail)
    \/ \E fail \in BOOLEAN : GetBlock(fail)
    \/ ExecuteBatch
    \/ RemoveTokensResumes(PassSlot)
    \/ ExecuteResumes(PassSlot)
    \/ \E outcome \in RequestOutcomes : RequestSettles(PassSlot, outcome)
    \/ BatchFetched({})
    \/ \E failAt \in 0..1 : SaveFetched(failAt)

SpecMidnight == InitMidnight /\ [][NextMidnight]_vars

\* the dates of the entries that the reconciliation classified as today's
DatesOfToday == { toISODateString(pass.today[k].date) : k \in 1..Len(pass.today) }

(***************************************************************************)
(* C38  Every entry that the reconciliation classified as today's, for     *)
(* date D, is saved by fetchTodayBalances under date D, also when the UTC  *)
(* day changes between the reconciliation and the fetch of the same pass:  *)
(* while today's entries are fetched no row is written under another date, *)
(* and when the pass has ended every one of the entries has been written.  *)
(***************************************************************************)
C38_TodaySavedUnderItsDate ==
    pass.phase = "today"
    => /\ \A key \in DOMAIN lastWrite : key[4] \in DatesOfToday
       /\ pass.pc = "done" => \A k \in 1..Len(pass.today) :
                                  KeyOfEntry(pass.today[k]) \in DOMAIN lastWrite

(***************************************************************************)
(* The wiring of the entry point and the terminal UI around one tracker.   *)
(* main (index.ts:19-42) renders the TerminalUI with the tracker and calls *)
(* tracker.initialize(), with updateBalances chained on its success; the   *)
(* effect of the TerminalUI (index.tsx:87-106) calls updateBalances when   *)
(* it runs and again on every tick of setInterval.  pass holds             *)
(*   init        where initialize() is: not called, waiting for the store  *)
(*               to open (457-458), fetching the history (460-461), ended  *)
(*   storeOpen   the tracker's BalanceDatabase has its connection          *)
(*   inProgress  the updateBalances passes started and not yet settled     *)
(*   early       the passes started while the store had no connection:     *)
(*               checkMissingBalances throws in them at once               *)
(*   due         when the interval timer fires next                        *)
(***************************************************************************)
MaxPasses == 3

\* config.update_interval in seconds (config.schema.json: an integer, minimum 1)
update_interval == 1

InitWiring ==
    /\ chain = [n \in TrackerNetworks |-> GenesisChain]
    /\ rs = RsIdle
    /\ TrackerIdle
    /\ StoreIdle
    /\ LimiterIdle
    /\ rpc = <<>>
    /\ pass = [pc |-> "main", init |-> "none", storeOpen |-> FALSE, mounted |-> FALSE,
               due |-> 0, inProgress |-> 0, started |-> 0, early |-> 0]

\* a call of tracker.updateBalances(): index.tsx:468-479
StartPass(p) ==
    IF p.storeOpen
    THEN [p EXCEPT !.inProgress = @ + 1, !.started = @ + 1]
    ELSE [p EXCEPT !.early = @ + 1, !.started = @ + 1]

\* index.ts:19-41: main renders the UI and calls tracker.initialize(), which
\* waits for the store to open
Main ==
    /\ pass.pc = "main"
    /\ pass' = [pass EXCEPT !.pc = "rendered", !.init = "opening"]
    /\ UNCHANGED <<rpc, resolutionVars, storeVars, limiterVars>>

\* database.ts:49-53, index.tsx:458-461: the directory is made, the connection
\* opened; initialize goes on to fetch the missing history
StoreOpens ==
    /\ pass.init = "opening"
    /\ pass' = [pass EXCEPT !.init = "fetching", !.storeOpen = TRUE]
    /\ UNCHANGED <<rpc, resolutionVars, storeVars, limiterVars>>

\* index.ts:33-41: initialize() settles; on success the callback of then calls
\* updateBalances, on failure the error is logged
InitializeSettles(ok) ==
    /\ pass.init = "fetching"
    /\ pass.started < MaxPasses
    /\ pass' = IF ok THEN StartPass([pass EXCEPT !.init = "done"])
               ELSE [pass EXCEPT !.init = "failed"]
    /\ UNCHANGED <<rpc, resolutionVars, storeVars, limiterVars>>

\* index.tsx:87-106: the effect runs after the render: it calls updateBalances
\* and sets the interval
EffectRuns ==
    /\ pass.pc = "rendered"
    /\ ~pass.mounted
    /\ pass.started < MaxPasses
    /\ pass' = StartPass([pass EXCEPT !.mounted = TRUE, !.due = now + update_interval * 1000])
    /\ UNCHANGED <<rpc, resolutionVars, storeVars, limiterVars>>

\* index.tsx:103: the interval timer fires and calls updateBalances
IntervalFires ==
    /\ pass.mounted
    /\ now >= pass.due
    /\ pass.started < MaxPasses
    /\ pass' = StartPass([pass EXCEPT !.due = @ + update_interval * 1000])
    /\ UNCHANGED <<rpc, resolutionVars, storeVars, limiterVars>>

\* index.tsx:490: a pass in progress resolves or rejects
PassSettles ==
    /\ pass.inProgress > 0
    /\ pass' = [pass EXCEPT !.inProgress = @ - 1]
    /\ UNCHANGED <<rpc, resolutionVars, storeVars, limiterVars>>

\* time passes up to the next firing of the interval
WiringTick ==
    /\ now + ClockStep <= MaxNow
    /\ pass.mounted => now < pass.due
    /\ now' = now + ClockStep
    /\ UNCHANGED <<limiters, exec, window, resolutionVars, storeVars, passVars>>

NextWiring ==
    \/ Main
    \/ StoreOpens
    \/ \E ok \in BOOLEAN : InitializeSettles(ok)
    \/ EffectRuns
    \/ IntervalFires
    \/ PassSettles
    \/ WiringTick

SpecWiring == InitWiring /\ [][NextWiring]_vars

\* initialize() has been called and has not settled
InitializeInProgress == pass.init \in {"opening", "fetching"}

(***************************************************************************)
(* C39  With the wiring of the entry point and the terminal UI, at most    *)
(* one of initialize() and updateBalances() is in progress on a tracker at *)
(* any time: no pass starts before initialize() has opened the tracker's   *)
(* store, and no pass starts while initialize() or another pass runs.      *)
(***************************************************************************)
C39_OneAtATime ==
    /\ pass.early = 0
    /\ pass.inProgress + (IF InitializeInProgress THEN 1 ELSE 0) <= 1

====
